---- MODULE Spec2Model ----
(***************************************************************************)
(* Verification model of the IRIS live-commentary core:                    *)
(*   - CS2GameStateIntegration (src/src/cs2_gsi.py): snapshot diffing      *)
(*   - TTSQueueManager (src/src/queue_manager.py): dispatch queue          *)
(*   - TTSEngine (src/src/tts_engine.py): the speech resource              *)
(*   - IrisBrainV2 (src/src/iris_brain_v2_integrated.py): cooldowns        *)
(*   - CS2GameStateIntegration again: the webhook with any request body    *)
(*   - EventPriorityManager and the reactions that call interrupt()        *)
(*   - AsyncEventProcessor (src/iris_event_processor.py): prompt cache     *)
(*   - start() and stop() of the queue manager and of the speech engine    *)
(*   - EventPriorityManager.get_priority: the class of an event            *)
(*   - CS2GameStateIntegration: one sequence of requests replayed          *)
(*   - CS2GameStateIntegration: kill streak, round, bomb and map           *)
(*   - IrisBrain (src/src/iris_brain.py): cooldowns of the reactions       *)
(*   - TTSQueueManager._process_loop with a tts.speak() that may raise     *)
(*   - AsyncEventProcessor.process_queue_async: the worker and its pool    *)
(*   - IrisAssistant.process_voice_command (src/main.py): voice commands   *)
(*   - IrisOrchestrator.on_cs2_event (src/src/iris_orchestrator.py)        *)
(* Each subsystem has its own specification over the shared variable list; *)
(* a specification leaves the variables of the other subsystems unchanged. *)
(***************************************************************************)
EXTENDS Integers, Sequences, FiniteSets, TLC

VARIABLES
    \* ---- CS2GameStateIntegration ----
    player,          \* self.player: health, kills, deaths, round_kills
    kill_streak,     \* self.kill_streak
    events_history,  \* event types appended by the handler call(s) under observation
    scn,             \* number of steps of the 10->11->12->13 scenario matched so far
    gsi_th,          \* concurrent webhook handlers: position, snapshot and locals
    gsi_base,        \* stored state when the observed pair of requests began
    \* ---- TTSQueueManager ----
    queue,           \* self.queue: deque of items (id stands for the text)
    last_speak_time, \* self.last_speak_time
    last_add,        \* the most recent add() call and what it returned
    \* ---- TTSEngine ----
    message_queue,   \* self.message_queue: entries <<message_priority, counter, id>>
    msg_counter,     \* self._message_counter
    currently_speaking,
    interrupt_flag,  \* self._interrupt_flag
    mixer,           \* pygame.mixer.music: id of the utterance playing, 0 when silent
    overlap,         \* an utterance was started while another was still playing
    tts,             \* the consumer thread (_process_queue): position and current message
    thr,             \* the queue manager's loop thread and an application thread
    last_interrupt,  \* what the interrupt() calls made so far found and did
    \* ---- environment ----
    now,             \* time.time() in units of the debounce interval
    next_id,         \* number of messages created so far
    \* ---- IrisBrainV2 ----
    last_response_times, \* self.last_response_times: event type -> time of the last response
    brain_now,       \* time.time() in seconds
    brain_th,        \* threads inside generate_response: position and locals
    calls,           \* finished generate_response calls: type, arrival time, force, result
                     \* and the number of calls that had returned when it arrived
    \* ---- CS2GameStateIntegration, the webhook with request bodies of any shape ----
    gs,              \* stored player and round fields
    gs_events,       \* events emitted by the request handled last
    gs_resp,         \* HTTP response to the request handled last
    \* ---- AsyncEventProcessor ----
    prompt_cache,    \* self.prompt_cache: cache key -> response text
    iris_up,         \* the IRIS server answers requests
    proc_last,       \* the process_event call that returned last
    \* ---- reactions of the brain to game events ----
    speaking_event,  \* event whose comment the speech engine is playing ("none" when silent)
    last_react,      \* the reaction handled last and whether it called interrupt()
    \* ---- start() and stop() of the queue manager and of the speech engine ----
    is_running,      \* self.is_running of either object
    loop_pc,         \* position of every loop thread started so far
    processor_thread,\* self.processor_thread / self.processing_thread (0 for None)
    caller,          \* the application thread: idle or inside stop(), waiting in join()
    \* ---- EventPriorityManager.get_priority and the processor's priority table ----
    event_weights,   \* self.event_weights: event type -> tier
    classified,      \* the get_priority call that returned last
    \* ---- the same requests served by two engines at different wall-clock times ----
    run_a,           \* the first engine: stored fields and the events of the last request
    run_b,           \* the second engine
    \* ---- CS2GameStateIntegration: kills, round, bomb and map fields of the snapshots ----
    ms,              \* stored kills, kill streak, round-start kills, round phase, bomb, map phase and round
    ms_events,       \* events emitted by the request handled last
    \* ---- IrisBrain (src/src/iris_brain.py): cooldowns of the react_to_* methods ----
    iris_last_response_times,\* self.last_response_times of IrisBrain: event type -> time of the last response
    iris_now,        \* time.time() in seconds
    iris_react,      \* the react_to_* call that returned last
    \* ---- TTSQueueManager._process_loop with a speak() that may raise ----
    loop_queue,      \* self.queue: the accepted items waiting, oldest first
    loop_elapsed,    \* time.time() - self.last_speak_time, counted up to the debounce interval
    loop_gap,        \* time since the previous dispatch began, counted up to the debounce interval
    loop_at,         \* position of the consumer thread and the item it holds
    loop_busy,       \* what tts.is_busy() returns
    loop_spoken,     \* per item id: the calls of tts.speak made for it since add() accepted it
    loop_last,       \* the last call of tts.speak: the item and whether it returned or raised
    \* ---- AsyncEventProcessor.process_queue_async: the worker and the pool ----
    event_queue,     \* self.event_queue: the events waiting, as (priority, arrival, type)
    pool,            \* the events whose process_event runs on a thread of self.executor
    work_outcome,    \* per event: how its process_event ended
    queued_events,   \* self.stats['queued_events']: the events queue_event has accepted
    \* ---- IrisAssistant.process_voice_command and its generator threads ----
    is_currently_generating,\* self.is_currently_generating
    should_stop_speaking,\* self.should_stop_speaking
    gen,             \* per generate_and_speak thread: position, what ai.generate gave, what it said
    commands,        \* number of voice commands handled so far
    \* ---- IrisOrchestrator.on_cs2_event called from several threads ----
    processing,      \* self.processing
    orch,            \* per calling thread: its position in on_cs2_event and what the call returned
    event_log,       \* len(self.event_log)
    orch_calls       \* number of calls of on_cs2_event made so far

gsiVars == <<player, kill_streak, events_history, scn, gsi_th, gsi_base>>

ttsVars == <<queue, last_speak_time, last_add, message_queue, msg_counter,
             currently_speaking, interrupt_flag, mixer, overlap, tts, thr, now, next_id,
             last_interrupt>>

brainVars == <<last_response_times, brain_now, brain_th, calls>>

hookVars == <<gs, gs_events, gs_resp>>

procVars == <<prompt_cache, iris_up, proc_last>>

reactVars == <<speaking_event, last_react>>

lifeVars == <<is_running, loop_pc, processor_thread, caller>>

clsVars == <<event_weights, classified>>

replayVars == <<run_a, run_b>>

matchVars == <<ms, ms_events>>

irisVars == <<iris_last_response_times, iris_now, iris_react>>

loopVars == <<loop_queue, loop_elapsed, loop_gap, loop_at, loop_busy, loop_spoken, loop_last>>

workVars == <<event_queue, pool, work_outcome, queued_events>>

voiceVars == <<is_currently_generating, should_stop_speaking, gen, commands>>

orchVars == <<processing, orch, event_log, orch_calls>>

\* the variables of the subsystems modelled after the first three
extVars == <<gs, gs_events, gs_resp, prompt_cache, iris_up, proc_last, speaking_event, last_react,
            is_running, loop_pc, processor_thread, caller,
            event_weights, classified,
            run_a, run_b,
            ms, ms_events,
            iris_last_response_times, iris_now, iris_react,
            loop_queue, loop_elapsed, loop_gap, loop_at, loop_busy, loop_spoken, loop_last,
            event_queue, pool, work_outcome, queued_events,
            is_currently_generating, should_stop_speaking, gen, commands,
            processing, orch, event_log, orch_calls>>

\* the variables of the subsystems modelled last
lateVars == <<lifeVars, clsVars, replayVars, matchVars, irisVars, loopVars, workVars, voiceVars, orchVars>>

\* the variables of the first three subsystems
coreVars == <<gsiVars, ttsVars, brainVars>>

\* everything but the variables of start() and stop()
notLife == <<coreVars, hookVars, procVars, reactVars, clsVars, replayVars, matchVars, irisVars, loopVars, workVars, voiceVars, orchVars>>

\* everything but the variables of the classification
notCls == <<coreVars, hookVars, procVars, reactVars, lifeVars, replayVars, matchVars, irisVars, loopVars, workVars, voiceVars, orchVars>>

\* everything but the variables of the two engines run side by side
notReplay == <<coreVars, hookVars, procVars, reactVars, lifeVars, clsVars, matchVars, irisVars, loopVars, workVars, voiceVars, orchVars>>

\* everything but the variables of the round, bomb and map fields
notMatch == <<coreVars, hookVars, procVars, reactVars, lifeVars, clsVars, replayVars, irisVars, loopVars, workVars, voiceVars, orchVars>>

\* everything but the variables of IrisBrain
notIris == <<coreVars, hookVars, procVars, reactVars, lifeVars, clsVars, replayVars, matchVars, loopVars, workVars, voiceVars, orchVars>>

\* the variables that the dispatch loop with a failing speak() leaves alone
notLoop == <<coreVars, hookVars, procVars, reactVars, lifeVars, clsVars, replayVars, matchVars, irisVars, workVars, voiceVars, orchVars>>

\* the variables that the worker of the event processor leaves alone
notWork == <<coreVars, hookVars, procVars, reactVars, lifeVars, clsVars, replayVars, matchVars, irisVars, loopVars, voiceVars, orchVars>>

\* the variables that the voice commands leave alone
notVoice == <<coreVars, hookVars, procVars, reactVars, lifeVars, clsVars, replayVars, matchVars, irisVars, loopVars, workVars, orchVars>>

\* the variables that the orchestrator leaves alone
notOrch == <<coreVars, hookVars, procVars, reactVars, lifeVars, clsVars, replayVars, matchVars, irisVars, loopVars, workVars, voiceVars>>

vars == <<player, kill_streak, events_history, scn, gsi_th, gsi_base,
          queue, last_speak_time, last_add, message_queue, msg_counter,
          currently_speaking, interrupt_flag, mixer, overlap, tts, thr, now, next_id,
          last_interrupt,
          last_response_times, brain_now, brain_th, calls,
          gs, gs_events, gs_resp, prompt_cache, iris_up, proc_last,
          speaking_event, last_react,
          is_running, loop_pc, processor_thread, caller,
          event_weights, classified,
          run_a, run_b,
          ms, ms_events,
          iris_last_response_times, iris_now, iris_react,
          loop_queue, loop_elapsed, loop_gap, loop_at, loop_busy, loop_spoken, loop_last,
          event_queue, pool, work_outcome, queued_events,
          is_currently_generating, should_stop_speaking, gen, commands,
          processing, orch, event_log, orch_calls>>

(***************************************************************************)
(* CS2GameStateIntegration                                                 *)
(***************************************************************************)

\* A field that the snapshot does not carry (dict.get falls back to the stored value).
Absent == -999

\* Values a snapshot may carry.
\* Largest match-kill counter a snapshot carries; the diff depends only on
\* differences of the counter, so the 10->11->12->13 scenario is followed as
\* 0 -> 1 -> 2 -> 3 from the constructed state.
MaxKills == 3
\* Largest round-kill counter a snapshot carries (5 is an ace).
MaxRoundKills == 5
\* Largest kill streak the model follows (the streak is unbounded in the code).
MaxStreak == 3

KillVals == 0..MaxKills
RoundKillVals == 0..MaxRoundKills
DeathVals == {0, 1}
HealthVals == {0, 20, 40, 100}

Snapshots ==
    [kills : KillVals \cup {Absent},
     round_kills : RoundKillVals \cup {Absent},
     deaths : DeathVals \cup {Absent},
     health : HealthVals \cup {Absent}]

\* dict.get(key, default)
Get(v, default) == IF v = Absent THEN default ELSE v

\* PlayerState() as constructed
PlayerState == [health |-> 100, kills |-> 0, deaths |-> 0, round_kills |-> 0]

\* lines 142-153: every field takes the snapshot's value, or keeps the stored one
UpdatePlayer(p, snap) ==
    [health |-> Get(snap.health, p.health),
     kills |-> Get(snap.kills, p.kills),
     deaths |-> Get(snap.deaths, p.deaths),
     round_kills |-> Get(snap.round_kills, p.round_kills)]

\* _emit_kill_event: the event type chosen by the stored round-kill counter
KillEventTypeFirstMatch(round_kills) ==
    IF round_kills >= 2 THEN "double_kill"
    ELSE IF round_kills >= 3 THEN "triple_kill"
    ELSE IF round_kills >= 4 THEN "quadra_kill"
    ELSE IF round_kills >= 5 THEN "ace"
    ELSE "kill"

KillEventType(round_kills) ==
    IF round_kills >= 5 THEN "ace"
    ELSE IF round_kills >= 4 THEN "quadra_kill"
    ELSE IF round_kills >= 3 THEN "triple_kill"
    ELSE IF round_kills >= 2 THEN "double_kill"
    ELSE "kill"

\* _emit_kill_event(kill_count): one event per call, not one per kill
EmitKillEventPerKill(p, kill_count) ==
    [n \in 1..(IF kill_count > 5 THEN 5 ELSE kill_count) |-> "kill"]

EmitKillEvent(p, kill_count) == <<KillEventType(p.round_kills)>>

\* _emit_damage_event(damage)
EmitDamageEvent(p, damage) ==
    IF p.health <= 25 THEN <<"low_health">>
    ELSE IF damage >= 50 THEN <<"heavy_damage">>
    ELSE <<>>

\* lines 191-198 evaluated with the given old values against the stored player p:
\* the events, in emission order
PlayerEvents(p, old_kills, old_deaths, old_health) ==
    (IF p.kills > old_kills THEN EmitKillEvent(p, p.kills - old_kills) ELSE <<>>)
    \o (IF p.deaths > old_deaths THEN <<"death">> ELSE <<>>)
    \o (IF p.health < old_health /\ p.health > 0
        THEN EmitDamageEvent(p, old_health - p.health) ELSE <<>>)

\* kill_streak with the reset of a death made before the kills are added
StreakAfterDeathFirst(streak, p, old_kills, old_deaths) ==
    LET base == IF p.deaths > old_deaths THEN 0 ELSE streak IN
    IF p.kills > old_kills THEN base + (p.kills - old_kills) ELSE base

\* kill_streak after lines 191-195: += kill_count, then reset by a death
StreakAfter(streak, p, old_kills, old_deaths) ==
    IF p.deaths > old_deaths THEN 0
    ELSE IF p.kills > old_kills THEN streak + (p.kills - old_kills)
    ELSE streak

\* _process_game_state run by one request without interference
ProcessGameState(st, snap) ==
    LET p == UpdatePlayer(st.player, snap) IN
    [player |-> p,
     kill_streak |-> StreakAfter(st.kill_streak, p, st.player.kills, st.player.deaths),
     events |-> PlayerEvents(p, st.player.kills, st.player.deaths, st.player.health)]

KillClass == {"kill", "double_kill", "triple_kill", "quadra_kill", "ace"}

\* the kill-class events of a sequence of event types
KillClassEvents(evs) == SelectSeq(evs, LAMBDA e : e \in KillClass)

\* scenario monitor: step k raises match kills by one (k-1 -> k) with round-kills k
ScnStep(k, old, p) ==
    old.kills = k - 1 /\ p.kills = k /\ p.round_kills = k

ScnNext(s, old, p) ==
    IF s < 3 /\ ScnStep(s + 1, old, p) THEN s + 1
    ELSE IF ScnStep(1, old, p) THEN 1
    ELSE 0

GsiIdle == [t \in 1..2 |-> [pc |-> "idle", snap |-> [kills |-> Absent, round_kills |-> Absent,
                                                      deaths |-> Absent, health |-> Absent],
                             old_kills |-> 0, old_deaths |-> 0, old_health |-> 0]]

GsiConstructed ==
    /\ player = PlayerState
    /\ kill_streak = 0
    /\ events_history = <<>>
    /\ scn = 0
    /\ gsi_th = GsiIdle
    /\ gsi_base = [player |-> PlayerState, kill_streak |-> 0]

\* gsi_handler: one POST processed to completion (requests arriving one at a time)
Snapshot(snap) ==
    LET r == ProcessGameState([player |-> player, kill_streak |-> kill_streak], snap) IN
    /\ r.kill_streak <= MaxStreak
    /\ player' = r.player
    /\ kill_streak' = r.kill_streak
    /\ events_history' = r.events
    /\ scn' = ScnNext(scn, player, r.player)
    /\ UNCHANGED <<gsi_th, gsi_base>>
    /\ UNCHANGED ttsVars
    /\ UNCHANGED brainVars
    /\ UNCHANGED extVars

GsiNext == \E snap \in Snapshots : Snapshot(snap)

(***************************************************************************)
(* Two webhook requests served concurrently: app.run() serves every        *)
(* request on a thread of its own and _process_game_state takes no lock,   *)
(* so the handlers interleave between the saving of the old values         *)
(* (133-137), the field updates (140-168) and the comparisons (180-198).   *)
(***************************************************************************)

\* snapshots carried by the two concurrent requests
ConcSnapshots ==
    {s \in Snapshots : /\ s.kills \in {Absent, 1, 2}
                       /\ s.round_kills \in {Absent, 1, 2}
                       /\ s.deaths \in {Absent, 1}
                       /\ s.health \in {Absent, 20, 40}}

\* two POSTs arrive; Flask hands each to its own thread
GsiAccept(s1, s2) ==
    /\ gsi_th' = [t \in 1..2 |-> [gsi_th[t] EXCEPT !.pc = "read",
                                                    !.snap = IF t = 1 THEN s1 ELSE s2]]
    /\ gsi_base' = [player |-> player, kill_streak |-> kill_streak]
    /\ events_history' = <<>>
    /\ UNCHANGED <<player, kill_streak, scn>>
    /\ UNCHANGED ttsVars
    /\ UNCHANGED brainVars
    /\ UNCHANGED extVars

\* lines 133-137: save the old values
GsiRead(t) ==
    /\ gsi_th[t].pc = "read"
    /\ gsi_th' = [gsi_th EXCEPT ![t].pc = "write",
                                ![t].old_kills = player.kills,
                                ![t].old_deaths = player.deaths,
                                ![t].old_health = player.health]
    /\ UNCHANGED <<player, kill_streak, events_history, scn, gsi_base>>
    /\ UNCHANGED ttsVars
    /\ UNCHANGED brainVars
    /\ UNCHANGED extVars

\* lines 140-168: overwrite the stored fields
GsiWrite(t) ==
    /\ gsi_th[t].pc = "write"
    /\ player' = UpdatePlayer(player, gsi_th[t].snap)
    /\ gsi_th' = [gsi_th EXCEPT ![t].pc = "emit"]
    /\ UNCHANGED <<kill_streak, events_history, scn, gsi_base>>
    /\ UNCHANGED ttsVars
    /\ UNCHANGED brainVars
    /\ UNCHANGED extVars

\* lines 191-198: compare the stored fields with the saved values and emit
GsiEmit(t) ==
    /\ gsi_th[t].pc = "emit"
    /\ StreakAfter(kill_streak, player, gsi_th[t].old_kills, gsi_th[t].old_deaths) <= MaxStreak
    /\ kill_streak' = StreakAfter(kill_streak, player, gsi_th[t].old_kills, gsi_th[t].old_deaths)
    /\ events_history' = events_history \o
           PlayerEvents(player, gsi_th[t].old_kills, gsi_th[t].old_deaths, gsi_th[t].old_health)
    /\ gsi_th' = [gsi_th EXCEPT ![t].pc = "done"]
    /\ UNCHANGED <<player, scn, gsi_base>>
    /\ UNCHANGED ttsVars
    /\ UNCHANGED brainVars
    /\ UNCHANGED extVars

GsiConcNext ==
    \/ /\ \A t \in 1..2 : gsi_th[t].pc = "idle"
       /\ \E s1, s2 \in ConcSnapshots : GsiAccept(s1, s2)
    \/ \E t \in 1..2 : GsiRead(t) \/ GsiWrite(t) \/ GsiEmit(t)

\* the events of processing snapshot a and then snapshot b, one after the other
SeqEvents(base, a, b) ==
    LET r1 == ProcessGameState(base, a)
        r2 == ProcessGameState([player |-> r1.player, kill_streak |-> r1.kill_streak], b)
    IN r1.events \o r2.events

\* C3: diff-then-mutate is atomic per snapshot: once two concurrent requests
\* have both been processed, the emitted events are those of processing the
\* two snapshots in one of the two sequential orders.
C3_DiffThenMutateAtomic ==
    (\A t \in 1..2 : gsi_th[t].pc = "done") =>
        \/ events_history = SeqEvents(gsi_base, gsi_th[1].snap, gsi_th[2].snap)
        \/ events_history = SeqEvents(gsi_base, gsi_th[2].snap, gsi_th[1].snap)

(***************************************************************************)
(* TTSQueueManager and TTSEngine                                           *)
(***************************************************************************)

\* TTSQueueManager.PRIORITY_*
PRIORITY_CRITICAL == 10
PRIORITY_REGULAR == 5
PRIORITY_COMMENT == 1
Priorities == {PRIORITY_COMMENT, PRIORITY_REGULAR, PRIORITY_CRITICAL}

\* max_queue_size given to TTSQueueManager(...) and to TTSEngine(...)
MaxQueueSize == 2
TtsMaxQueueSize == 2
\* self.debounce_interval (0.3 s), the unit of the model's clock
DebounceInterval == 1
\* number of messages the callers create, and the last clock value followed
MaxMsgs == 3
MaxNow == 2

NoMsg == [prio |-> 0, counter |-> 0, id |-> 0]
IdleThread == [pc |-> "idle", id |-> 0, priority |-> 0, mprio |-> 1, counter |-> 0, flush |-> FALSE]

\* TTSQueueManager.__init__ and TTSEngine.__init__, both started
TtsConstructed ==
    /\ queue = <<>>
    /\ last_speak_time = 0
    /\ last_add = [id |-> 0, priority |-> 0, ret |-> TRUE, full |-> FALSE]
    /\ message_queue = {}
    /\ msg_counter = 0
    /\ currently_speaking = FALSE
    /\ interrupt_flag = FALSE
    /\ mixer = 0
    /\ overlap = FALSE
    /\ tts = [pc |-> "get", cur |-> NoMsg]
    /\ thr = [qm |-> [IdleThread EXCEPT !.pc = "loop"], api |-> IdleThread]
    /\ last_interrupt = "none"
    /\ now = DebounceInterval
    /\ next_id = 0

\* ---- TTSQueueManager.add ----

\* deque.append on a deque(maxlen=n): a full deque drops its leftmost element
DequeAppend(q, x) == IF Len(q) >= MaxQueueSize THEN Tail(q) \o <<x>> ELSE Append(q, x)

NewItem(priority) == [id |-> next_id + 1, priority |-> priority, timestamp |-> now]

\* add() without the length test of line 63
AddUnchecked(priority) ==
    /\ queue' = DequeAppend(queue, NewItem(priority))
    /\ last_add' = [id |-> next_id + 1, priority |-> priority, ret |-> TRUE,
                    full |-> Len(queue) >= MaxQueueSize]

\* index of the lowest-priority, oldest item of q
EvictIndex(q) ==
    CHOOSE i \in 1..Len(q) :
        \A j \in 1..Len(q) : \/ q[j].priority > q[i].priority
                             \/ (q[j].priority = q[i].priority /\ j >= i)

RemoveAt(q, i) == SubSeq(q, 1, i - 1) \o SubSeq(q, i + 1, Len(q))

\* add() with the eviction policy of a bounded priority queue
AddEvicting(priority) ==
    IF Len(queue) < MaxQueueSize
    THEN /\ queue' = Append(queue, NewItem(priority))
         /\ last_add' = [id |-> next_id + 1, priority |-> priority, ret |-> TRUE, full |-> FALSE]
    ELSE IF priority >= queue[EvictIndex(queue)].priority
    THEN /\ queue' = Append(RemoveAt(queue, EvictIndex(queue)), NewItem(priority))
         /\ last_add' = [id |-> next_id + 1, priority |-> priority, ret |-> TRUE, full |-> TRUE]
    ELSE /\ queue' = queue
         /\ last_add' = [id |-> next_id + 1, priority |-> priority, ret |-> FALSE, full |-> TRUE]

\* add(): lines 62-74, under self.lock
AddLocked(priority) ==
    IF Len(queue) >= MaxQueueSize
    THEN /\ queue' = queue
         /\ last_add' = [id |-> next_id + 1, priority |-> priority, ret |-> FALSE, full |-> TRUE]
    ELSE /\ queue' = DequeAppend(queue, NewItem(priority))
         /\ last_add' = [id |-> next_id + 1, priority |-> priority, ret |-> TRUE, full |-> FALSE]

\* an application thread calls TTSQueueManager.add(text, emotion, priority)
Add(priority) ==
    /\ thr.api.pc = "idle"
    /\ next_id < MaxMsgs
    /\ AddLocked(priority)
    /\ next_id' = next_id + 1
    /\ UNCHANGED <<last_speak_time, message_queue, msg_counter, currently_speaking,
                   interrupt_flag, mixer, overlap, tts, thr, now>>
    /\ UNCHANGED last_interrupt
    /\ UNCHANGED gsiVars
    /\ UNCHANGED brainVars
    /\ UNCHANGED extVars

\* ---- TTSQueueManager._process_loop ----

\* TTSEngine.is_busy
IsBusy == currently_speaking \/ message_queue # {}

\* key=lambda x: (x['priority'], -x['timestamp']) compared as tuples
KeyLess(a, b) ==
    \/ a.priority < b.priority
    \/ (a.priority = b.priority /\ (0 - a.timestamp) < (0 - b.timestamp))

\* popleft instead of max(): the oldest item whatever its priority
SelectOldest(q) == 1

\* max(self.queue, key=...): the first item that no other item exceeds
SelectMax(q) ==
    CHOOSE i \in 1..Len(q) :
        /\ \A j \in 1..Len(q) : ~KeyLess(q[i], q[j])
        /\ \A j \in 1..(i - 1) : KeyLess(q[j], q[i])

\* lines 100-110: debounce and busy test passed
QmCheck ==
    /\ thr.qm.pc = "loop"
    /\ ~(now - last_speak_time < DebounceInterval)
    /\ ~IsBusy
    /\ thr' = [thr EXCEPT !.qm.pc = "select"]
    /\ UNCHANGED <<queue, last_speak_time, last_add, message_queue, msg_counter,
                   currently_speaking, interrupt_flag, mixer, overlap, tts, now, next_id>>
    /\ UNCHANGED last_interrupt
    /\ UNCHANGED gsiVars
    /\ UNCHANGED brainVars
    /\ UNCHANGED extVars

\* lines 112-119 under self.lock, then the call of self.tts.speak (line 123)
QmSelect ==
    /\ thr.qm.pc = "select"
    /\ IF queue = <<>>
       THEN /\ thr' = [thr EXCEPT !.qm.pc = "loop"]
            /\ queue' = queue
       ELSE LET i == SelectMax(queue) IN
            /\ thr' = [thr EXCEPT !.qm.pc = "inc", !.qm.id = queue[i].id,
                                  !.qm.priority = queue[i].priority, !.qm.mprio = 1]
            /\ queue' = RemoveAt(queue, i)
    /\ UNCHANGED <<last_speak_time, last_add, message_queue, msg_counter,
                   currently_speaking, interrupt_flag, mixer, overlap, tts, now, next_id>>
    /\ UNCHANGED last_interrupt
    /\ UNCHANGED gsiVars
    /\ UNCHANGED brainVars
    /\ UNCHANGED extVars

\* line 124: self.last_speak_time = time.time()
QmStamp ==
    /\ thr.qm.pc = "stamp"
    /\ last_speak_time' = now
    /\ thr' = [thr EXCEPT !.qm = [IdleThread EXCEPT !.pc = "loop"]]
    /\ UNCHANGED <<queue, last_add, message_queue, msg_counter,
                   currently_speaking, interrupt_flag, mixer, overlap, tts, now, next_id>>
    /\ UNCHANGED last_interrupt
    /\ UNCHANGED gsiVars
    /\ UNCHANGED brainVars
    /\ UNCHANGED extVars

\* ---- TTSEngine.speak (no lock; called by the manager loop and by application threads) ----

\* an application thread calls tts.speak(text, emotion, priority)
SpeakCall(priority) ==
    /\ thr.api.pc = "idle"
    /\ next_id < MaxMsgs
    /\ next_id' = next_id + 1
    /\ thr' = [thr EXCEPT !.api.pc = "inc", !.api.id = next_id + 1,
                          !.api.mprio = IF priority THEN 0 ELSE 1]
    /\ UNCHANGED <<queue, last_speak_time, last_add, message_queue, msg_counter,
                   currently_speaking, interrupt_flag, mixer, overlap, tts, now>>
    /\ UNCHANGED last_interrupt
    /\ UNCHANGED gsiVars
    /\ UNCHANGED brainVars
    /\ UNCHANGED extVars

\* line 362: self._message_counter += 1
SpeakInc(t) ==
    /\ thr[t].pc = "inc"
    /\ msg_counter' = msg_counter + 1
    /\ thr' = [thr EXCEPT ![t].pc = "read"]
    /\ UNCHANGED <<queue, last_speak_time, last_add, message_queue,
                   currently_speaking, interrupt_flag, mixer, overlap, tts, now, next_id>>
    /\ UNCHANGED last_interrupt
    /\ UNCHANGED gsiVars
    /\ UNCHANGED brainVars
    /\ UNCHANGED extVars

\* line 363: counter = self._message_counter
SpeakRead(t) ==
    /\ thr[t].pc = "read"
    /\ thr' = [thr EXCEPT ![t].pc = "put", ![t].counter = msg_counter]
    /\ UNCHANGED <<queue, last_speak_time, last_add, message_queue, msg_counter,
                   currently_speaking, interrupt_flag, mixer, overlap, tts, now, next_id>>
    /\ UNCHANGED last_interrupt
    /\ UNCHANGED gsiVars
    /\ UNCHANGED brainVars
    /\ UNCHANGED extVars

\* lines 367-374: put(block=False); queue.Full drops the message
SpeakPut(t) ==
    /\ thr[t].pc = "put"
    /\ message_queue' =
          IF Cardinality(message_queue) >= TtsMaxQueueSize THEN message_queue
          ELSE message_queue \cup {<<thr[t].mprio, thr[t].counter, thr[t].id>>}
    /\ thr' = [thr EXCEPT ![t] = IF t = "qm" THEN [thr[t] EXCEPT !.pc = "stamp"]
                                 ELSE IdleThread]
    /\ UNCHANGED <<queue, last_speak_time, last_add, msg_counter,
                   currently_speaking, interrupt_flag, mixer, overlap, tts, now, next_id>>
    /\ UNCHANGED last_interrupt
    /\ UNCHANGED gsiVars
    /\ UNCHANGED brainVars
    /\ UNCHANGED extVars

\* ---- TTSEngine._process_queue (the consumer thread) ----

\* tuple order of the PriorityQueue entries
EntryLess(a, b) ==
    \/ a[1] < b[1]
    \/ (a[1] = b[1] /\ a[2] < b[2])
    \/ (a[1] = b[1] /\ a[2] = b[2] /\ a[3] < b[3])

\* line 291: message_queue.get(): the smallest entry
TtsGet ==
    /\ tts.pc = "get"
    /\ message_queue # {}
    /\ LET m == CHOOSE e \in message_queue : \A f \in message_queue \ {e} : EntryLess(e, f) IN
       /\ message_queue' = message_queue \ {m}
       /\ tts' = [pc |-> "check", cur |-> [prio |-> m[1], counter |-> m[2], id |-> m[3]]]
    /\ UNCHANGED <<queue, last_speak_time, last_add, msg_counter,
                   currently_speaking, interrupt_flag, mixer, overlap, thr, now, next_id>>
    /\ UNCHANGED last_interrupt
    /\ UNCHANGED gsiVars
    /\ UNCHANGED brainVars
    /\ UNCHANGED extVars

\* lines 296-301: a message fetched while the interrupt flag is up is discarded
TtsCheck ==
    /\ tts.pc = "check"
    /\ IF interrupt_flag
       THEN /\ tts' = [pc |-> "get", cur |-> NoMsg]
            /\ currently_speaking' = currently_speaking
       ELSE /\ tts' = [tts EXCEPT !.pc = "synth"]
            /\ currently_speaking' = TRUE
    /\ UNCHANGED <<queue, last_speak_time, last_add, message_queue, msg_counter,
                   interrupt_flag, mixer, overlap, thr, now, next_id>>
    /\ UNCHANGED last_interrupt
    /\ UNCHANGED gsiVars
    /\ UNCHANGED brainVars
    /\ UNCHANGED extVars

\* lines 305-322: synthesis; without an audio file nothing is played
TtsSynth ==
    /\ tts.pc = "synth"
    /\ \E ok \in BOOLEAN : tts' = [tts EXCEPT !.pc = IF ok THEN "play" ELSE "finish"]
    /\ UNCHANGED <<queue, last_speak_time, last_add, message_queue, msg_counter,
                   currently_speaking, interrupt_flag, mixer, overlap, thr, now, next_id>>
    /\ UNCHANGED last_interrupt
    /\ UNCHANGED gsiVars
    /\ UNCHANGED brainVars
    /\ UNCHANGED extVars

\* _play_audio lines 238-240: load and play
TtsPlay ==
    /\ tts.pc = "play"
    /\ overlap' = (overlap \/ mixer # 0)
    /\ mixer' = tts.cur.id
    /\ tts' = [tts EXCEPT !.pc = "poll"]
    /\ UNCHANGED <<queue, last_speak_time, last_add, message_queue, msg_counter,
                   currently_speaking, interrupt_flag, thr, now, next_id>>
    /\ UNCHANGED last_interrupt
    /\ UNCHANGED gsiVars
    /\ UNCHANGED brainVars
    /\ UNCHANGED extVars

\* _play_audio returning right after play(), without the loop of lines 243-256
TtsPollNoWait ==
    /\ tts.pc = "poll"
    /\ tts' = [tts EXCEPT !.pc = "finish"]
    /\ UNCHANGED mixer

\* _play_audio lines 243-256: wait until the mixer is silent or the flag is up,
\* then stop the mixer
TtsPoll ==
    /\ tts.pc = "poll"
    /\ mixer = 0 \/ interrupt_flag
    /\ mixer' = 0
    /\ tts' = [tts EXCEPT !.pc = "finish"]

\* _play_audio returns
TtsPlayed ==
    /\ TtsPoll
    /\ UNCHANGED <<queue, last_speak_time, last_add, message_queue, msg_counter,
                   currently_speaking, interrupt_flag, overlap, thr, now, next_id>>
    /\ UNCHANGED last_interrupt
    /\ UNCHANGED gsiVars
    /\ UNCHANGED brainVars
    /\ UNCHANGED extVars

\* lines 333-336: finally
TtsFinish ==
    /\ tts.pc = "finish"
    /\ currently_speaking' = FALSE
    /\ tts' = [pc |-> "get", cur |-> NoMsg]
    /\ UNCHANGED <<queue, last_speak_time, last_add, message_queue, msg_counter,
                   interrupt_flag, mixer, overlap, thr, now, next_id>>
    /\ UNCHANGED last_interrupt
    /\ UNCHANGED gsiVars
    /\ UNCHANGED brainVars
    /\ UNCHANGED extVars

\* the audio device reaches the end of the utterance
MixerEnd ==
    /\ mixer # 0
    /\ mixer' = 0
    /\ UNCHANGED <<queue, last_speak_time, last_add, message_queue, msg_counter,
                   currently_speaking, interrupt_flag, overlap, tts, thr, now, next_id>>
    /\ UNCHANGED last_interrupt
    /\ UNCHANGED gsiVars
    /\ UNCHANGED brainVars
    /\ UNCHANGED extVars

\* ---- TTSEngine.interrupt and flush (application thread) ----

\* the log of interrupt() calls: "aborted" after a call that found an utterance
\* in progress, "noop" after a call that found none, "noop_after_abort" after a
\* call that found none and follows an aborting call
InterruptLog(speaking) ==
    IF speaking THEN "aborted"
    ELSE IF last_interrupt \in {"aborted", "noop_after_abort"} THEN "noop_after_abort"
    ELSE "noop"

\* interrupt() without the test of line 438
InterruptCallAlways(flush) ==
    /\ thr.api.pc = "idle"
    /\ interrupt_flag' = TRUE
    /\ thr' = [thr EXCEPT !.api.pc = "stop", !.api.flush = flush]
    /\ last_interrupt' = InterruptLog(currently_speaking)
    /\ UNCHANGED <<queue, last_speak_time, last_add, message_queue, msg_counter,
                   currently_speaking, mixer, overlap, tts, now, next_id>>
    /\ UNCHANGED gsiVars
    /\ UNCHANGED brainVars
    /\ UNCHANGED extVars

\* interrupt() lines 438-439; flush() begins with interrupt()
InterruptCall(flush) ==
    /\ thr.api.pc = "idle"
    /\ IF currently_speaking
       THEN /\ interrupt_flag' = TRUE
            /\ thr' = [thr EXCEPT !.api.pc = "stop", !.api.flush = flush]
       ELSE /\ interrupt_flag' = interrupt_flag
            /\ thr' = [thr EXCEPT !.api.pc = IF flush THEN "drain" ELSE "idle"]
    /\ last_interrupt' = InterruptLog(currently_speaking)
    /\ UNCHANGED <<queue, last_speak_time, last_add, message_queue, msg_counter,
                   currently_speaking, mixer, overlap, tts, now, next_id>>
    /\ UNCHANGED gsiVars
    /\ UNCHANGED brainVars
    /\ UNCHANGED extVars

\* line 443: pygame.mixer.music.stop()
InterruptStop ==
    /\ thr.api.pc = "stop"
    /\ mixer' = 0
    /\ thr' = [thr EXCEPT !.api.pc = "wait"]
    /\ UNCHANGED <<queue, last_speak_time, last_add, message_queue, msg_counter,
                   currently_speaking, interrupt_flag, overlap, tts, now, next_id>>
    /\ UNCHANGED last_interrupt
    /\ UNCHANGED gsiVars
    /\ UNCHANGED brainVars
    /\ UNCHANGED extVars

\* lines 448-452: the wait ends when the consumer is done or after one second,
\* then the flag is cleared
InterruptClear ==
    /\ thr.api.pc = "wait"
    /\ interrupt_flag' = FALSE
    /\ thr' = [thr EXCEPT !.api.pc = IF thr.api.flush THEN "drain" ELSE "idle",
                          !.api.flush = FALSE]
    /\ UNCHANGED <<queue, last_speak_time, last_add, message_queue, msg_counter,
                   currently_speaking, mixer, overlap, tts, now, next_id>>
    /\ UNCHANGED last_interrupt
    /\ UNCHANGED gsiVars
    /\ UNCHANGED brainVars
    /\ UNCHANGED extVars

\* flush() lines 460-467: empty the message queue
FlushDrain ==
    /\ thr.api.pc = "drain"
    /\ message_queue' = {}
    /\ thr' = [thr EXCEPT !.api = IdleThread]
    /\ UNCHANGED <<queue, last_speak_time, last_add, msg_counter,
                   currently_speaking, interrupt_flag, mixer, overlap, tts, now, next_id>>
    /\ UNCHANGED last_interrupt
    /\ UNCHANGED gsiVars
    /\ UNCHANGED brainVars
    /\ UNCHANGED extVars

\* time passes
Tick ==
    /\ now < MaxNow
    /\ now' = now + 1
    /\ UNCHANGED <<queue, last_speak_time, last_add, message_queue, msg_counter,
                   currently_speaking, interrupt_flag, mixer, overlap, tts, thr, next_id>>
    /\ UNCHANGED last_interrupt
    /\ UNCHANGED gsiVars
    /\ UNCHANGED brainVars
    /\ UNCHANGED extVars

TtsNext ==
    \/ \E p \in Priorities : Add(p)
    \/ QmCheck \/ QmSelect \/ QmStamp
    \/ \E b \in BOOLEAN : SpeakCall(b)
    \/ \E t \in {"qm", "api"} : SpeakInc(t) \/ SpeakRead(t) \/ SpeakPut(t)
    \/ TtsGet \/ TtsCheck \/ TtsSynth \/ TtsPlay \/ TtsPlayed \/ TtsFinish
    \/ MixerEnd
    \/ \E f \in BOOLEAN : InterruptCall(f)
    \/ InterruptStop \/ InterruptClear \/ FlushDrain
    \/ Tick

(***************************************************************************)
(* IrisBrainV2: cooldowns of generate_response                             *)
(***************************************************************************)

EventTypes == {"kill", "death"}

\* self.cooldowns, in seconds
KillCooldown == 3
DeathCooldown == 5
Cooldown(event_type) == IF event_type = "kill" THEN KillCooldown ELSE DeathCooldown

\* time.time() when the brain is constructed: no less than any cooldown, as the
\* epoch clock is; the clock is followed for BrainHorizon seconds
StartTime == 5
BrainHorizon == 3
\* number of generate_response calls followed
MaxCalls == 2

BrainThreads == 1..2

BrainIdle == [pc |-> "idle", type |-> "kill", force |-> FALSE, t |-> 0, seen |-> 0,
              outcome |-> "text"]

\* IrisBrainV2.__init__: last_response_times = defaultdict(float)
BrainConstructed ==
    /\ last_response_times = [e \in EventTypes |-> 0]
    /\ brain_now = StartTime
    /\ brain_th = [t \in BrainThreads |-> BrainIdle]
    /\ calls = <<>>

\* _can_respond without the comparison with the cooldown
CanRespondAlways(event_type) == TRUE

\* _can_respond (lines 283-292)
CanRespond(event_type) ==
    ~(brain_now - last_response_times[event_type] < Cooldown(event_type))

InProgress == Cardinality({t \in BrainThreads : brain_th[t].pc # "idle"})

\* generate_response lines 364-367: the cooldown check of a new call
BrainCheck(t, event_type, force) ==
    /\ brain_th[t].pc = "idle"
    /\ Len(calls) + InProgress < MaxCalls
    /\ IF ~force /\ ~CanRespond(event_type)
       THEN /\ calls' = Append(calls, [type |-> event_type, t |-> brain_now,
                                       force |-> force, seen |-> Len(calls),
                                       result |-> "rejected"])
            /\ brain_th' = brain_th
       ELSE /\ brain_th' = [brain_th EXCEPT ![t] = [BrainIdle EXCEPT !.pc = "gen",
                                !.type = event_type, !.force = force, !.t = brain_now,
                                !.seen = Len(calls)]]
            /\ calls' = calls
    /\ UNCHANGED <<last_response_times, brain_now>>
    /\ UNCHANGED gsiVars
    /\ UNCHANGED ttsVars
    /\ UNCHANGED extVars

\* lines 372-399: the fallback template or the LLM call; the LLM may return an
\* empty text, an LLM error falls back to a template
BrainGen(t, outcome) ==
    /\ brain_th[t].pc = "gen"
    /\ brain_th' = [brain_th EXCEPT ![t].pc = "mark", ![t].outcome = outcome]
    /\ UNCHANGED <<last_response_times, brain_now, calls>>
    /\ UNCHANGED gsiVars
    /\ UNCHANGED ttsVars
    /\ UNCHANGED extVars

\* lines 402-420: a non-empty response is recorded (_mark_responded) and handed
\* to tts_engine.speak; the call returns
BrainMark(t) ==
    /\ brain_th[t].pc = "mark"
    /\ last_response_times' =
          IF brain_th[t].outcome = "text"
          THEN [last_response_times EXCEPT ![brain_th[t].type] = brain_now]
          ELSE last_response_times
    /\ calls' = Append(calls, [type |-> brain_th[t].type, t |-> brain_th[t].t,
                               force |-> brain_th[t].force, seen |-> brain_th[t].seen,
                               result |-> brain_th[t].outcome])
    /\ brain_th' = [brain_th EXCEPT ![t] = BrainIdle]
    /\ UNCHANGED brain_now
    /\ UNCHANGED gsiVars
    /\ UNCHANGED ttsVars
    /\ UNCHANGED extVars

\* a second passes
BrainTick ==
    /\ brain_now < StartTime + BrainHorizon
    /\ brain_now' = brain_now + 1
    /\ UNCHANGED <<last_response_times, brain_th, calls>>
    /\ UNCHANGED gsiVars
    /\ UNCHANGED ttsVars
    /\ UNCHANGED extVars

\* generate_response called by the event threads
BrainNext ==
    \/ \E t \in BrainThreads, e \in EventTypes, f \in BOOLEAN : BrainCheck(t, e, f)
    \/ \E t \in BrainThreads, o \in {"text", "empty"} : BrainGen(t, o)
    \/ \E t \in BrainThreads : BrainMark(t)
    \/ BrainTick

(***************************************************************************)
(* CS2GameStateIntegration: the webhook with request bodies of any shape   *)
(* (gsi_handler and _process_game_state, requests served one at a time).   *)
(* Followed here: team, health, kills, the active weapon's ammunition, the *)
(* round phase and the winning team.                                       *)
(***************************************************************************)

\* a string field that the request does not carry
NoField == "<absent>"

\* a health value that is not a number (a JSON string)
Malformed == -998

\* dict.get(key, default) for string fields
GetS(v, default) == IF v = NoField THEN default ELSE v

\* PlayerState() and RoundState() as constructed; warned_recently stands for
\* time.time() - last_ammo_warning_time <= 3.0
HookStore ==
    [team |-> "", health |-> 100, kills |-> 0, round_kills |-> 0,
     ammo_in_magazine |-> 0, ammo_in_reserve |-> 0, warned_recently |-> FALSE,
     phase |-> "", win_team |-> ""]

\* a JSON object that carries none of the fields followed
EmptyRequest ==
    [body |-> "object", team |-> NoField, health |-> Absent, kills |-> Absent,
     weapon |-> FALSE, ammo_clip |-> Absent, ammo_clip_reserve |-> Absent,
     phase |-> NoField, win_team |-> NoField]

\* requests that carry the player's team, health and match kills
PlayerRequests ==
    {[EmptyRequest EXCEPT !.team = t, !.health = h, !.kills = k] :
        t \in {NoField, "CT", "T"},
        h \in {Absent, 10, 20, 100, 150, Malformed},
        k \in {Absent, 1}}

\* requests whose player section carries an active weapon entry
WeaponRequests ==
    {[EmptyRequest EXCEPT !.weapon = TRUE, !.ammo_clip = c, !.ammo_clip_reserve = r,
                          !.health = h] :
        c \in {Absent, 3, 30}, r \in {Absent, 5}, h \in {Absent, Malformed}}

\* requests that carry a round section
RoundRequests ==
    {[EmptyRequest EXCEPT !.phase = p, !.win_team = w, !.health = h] :
        p \in {NoField, "live", "over", "freezetime"},
        w \in {NoField, "", "CT", "T"},
        h \in {Absent, Malformed}}

\* bodies for which get_json() returns a falsy value ("{}", "null"), and bodies
\* for which it raises (not JSON)
BodyRequests == {[EmptyRequest EXCEPT !.body = b] : b \in {"falsy", "invalid"}}

Requests == PlayerRequests \cup WeaponRequests \cup RoundRequests \cup BodyRequests

\* line 126: player_data is a non-empty dict
HasPlayer(req) ==
    req.team # NoField \/ req.health # Absent \/ req.kills # Absent \/ req.weapon

\* line 204: round_data is a non-empty dict
HasRound(req) == req.phase # NoField \/ req.win_team # NoField

\* lines 140-163: the fields take the request's values; an active weapon entry
\* sets both ammunition fields, with 0 for a key it does not carry
HookUpdatePlayer(g, req) ==
    [g EXCEPT !.team = GetS(req.team, g.team),
              !.health = Get(req.health, g.health),
              !.kills = Get(req.kills, g.kills),
              !.ammo_in_magazine = IF req.weapon THEN Get(req.ammo_clip, 0) ELSE @,
              !.ammo_in_reserve = IF req.weapon THEN Get(req.ammo_clip_reserve, 0) ELSE @]

\* lines 137 and 180: magazine plus reserve
Ammo(g) == g.ammo_in_magazine + g.ammo_in_reserve

\* lines 181-182
LowAmmo(old, p) ==
    Ammo(p) < Ammo(old) /\ Ammo(p) <= 10 /\ Ammo(p) > 0 /\ ~old.warned_recently

\* line 197: comparing a number with a string raises TypeError
CompareRaises(a, b) == (a = Malformed) # (b = Malformed)

\* event records of a sequence of event types
AsEvents(types) == [i \in 1..Len(types) |-> [type |-> types[i]]]

\* lines 126-198: the player section; failed when line 197 raises
PlayerSection(g, req) ==
    LET p == HookUpdatePlayer(g, req)
        warn == LowAmmo(g, p)
        stored == [p EXCEPT !.warned_recently = @ \/ warn]
        early == (IF warn THEN <<[type |-> "low_ammo_warning"]>> ELSE <<>>)
                 \o (IF p.kills > g.kills
                     THEN AsEvents(EmitKillEvent(p, p.kills - g.kills)) ELSE <<>>)
    IN IF CompareRaises(p.health, g.health)
       THEN [g |-> stored, events |-> early, failed |-> TRUE]
       ELSE [g |-> stored,
             events |-> early \o
                 (IF p.health < g.health /\ p.health > 0
                  THEN AsEvents(EmitDamageEvent(p, g.health - p.health)) ELSE <<>>),
             failed |-> FALSE]

\* str.lower() on the team names
Lower(s) ==
    IF s = "CT" THEN "ct" ELSE IF s = "T" THEN "t" ELSE s

\* _emit_round_end_event
RoundEndEvent(g) ==
    [type |-> "round_end", win_team |-> g.win_team, player_team |-> g.team,
     won |-> IF g.win_team # "" THEN Lower(g.win_team) = Lower(g.team) ELSE FALSE]

\* lines 211-215 with the guard of line 214 reduced to the new phase
RoundEventsEveryOver(old_phase, g) ==
    (IF g.phase = "freezetime" /\ old_phase # "freezetime"
     THEN <<[type |-> "round_start"]>> ELSE <<>>)
    \o (IF g.phase = "over" THEN <<RoundEndEvent(g)>> ELSE <<>>)

\* lines 211-215: events of a phase change
RoundEvents(old_phase, g) ==
    (IF g.phase = "freezetime" /\ old_phase # "freezetime"
     THEN <<[type |-> "round_start"]>> ELSE <<>>)
    \o (IF g.phase = "over" /\ old_phase # "over" THEN <<RoundEndEvent(g)>> ELSE <<>>)

\* lines 203-215: the round section
RoundSection(g, req) ==
    LET r == [g EXCEPT !.phase = GetS(req.phase, g.phase),
                       !.win_team = GetS(req.win_team, g.win_team)]
    IN [g |-> r, events |-> RoundEvents(g.phase, r)]

OkResponse == [status |-> "ok", code |-> 200]
ErrorResponse == [status |-> "error", code |-> 500]

\* gsi_handler (lines 100-108) around _process_game_state
ProcessRequest(g, req) ==
    IF req.body = "invalid" THEN [g |-> g, events |-> <<>>, resp |-> ErrorResponse]
    ELSE IF req.body = "falsy" THEN [g |-> g, events |-> <<>>, resp |-> OkResponse]
    ELSE LET ps == IF HasPlayer(req) THEN PlayerSection(g, req)
                   ELSE [g |-> g, events |-> <<>>, failed |-> FALSE]
         IN IF ps.failed
            THEN [g |-> ps.g, events |-> ps.events, resp |-> ErrorResponse]
            ELSE LET rs == IF HasRound(req) THEN RoundSection(ps.g, req)
                           ELSE [g |-> ps.g, events |-> <<>>]
                 IN [g |-> rs.g, events |-> ps.events \o rs.events, resp |-> OkResponse]

\* CS2GameStateIntegration.__init__
HookConstructed ==
    /\ gs = HookStore
    /\ gs_events = <<>>
    /\ gs_resp = OkResponse

\* one POST to the webhook
Post(req) ==
    LET r == ProcessRequest(gs, req) IN
    /\ gs' = r.g
    /\ gs_events' = r.events
    /\ gs_resp' = r.resp
    /\ UNCHANGED <<coreVars, lateVars>>
    /\ UNCHANGED <<procVars, reactVars>>

\* more than 3.0 s have passed since the last low_ammo_warning
WarningWindowEnds ==
    /\ gs.warned_recently
    /\ gs' = [gs EXCEPT !.warned_recently = FALSE]
    /\ UNCHANGED <<gs_events, gs_resp>>
    /\ UNCHANGED <<coreVars, lateVars>>
    /\ UNCHANGED <<procVars, reactVars>>

HookNext ==
    \/ \E req \in Requests : Post(req)
    \/ WarningWindowEnds

(***************************************************************************)
(* Reactions of the brain to game events: which of them call               *)
(* tts_engine.interrupt() while a comment is being spoken                  *)
(* (EventPriorityManager, IrisBrainV2.react_to_*, IrisBrain.generate_response) *)
(***************************************************************************)

\* EventPriority
CRITICAL == 100
HIGH == 75
MEDIUM == 50
LOW == 25

\* the margin of should_interrupt
InterruptMargin == 50

\* event types the reactions are called with
ReactEvents == {"kill", "death", "low_health", "round_end", "bomb_planted"}

\* EventPriorityManager.get_priority: the weight of event_weights, LOW for an
\* unknown type (the low_health adjustment assigns CRITICAL to CRITICAL)
GetPriority(event_type) ==
    IF event_type \in {"low_health", "death"} THEN CRITICAL
    ELSE IF event_type \in {"ace", "quadra_kill", "triple_kill", "bomb_planted",
                            "bomb_defused", "low_ammo_warning"} THEN HIGH
    ELSE IF event_type \in {"double_kill", "heavy_damage", "round_end"} THEN MEDIUM
    ELSE LOW

\* EventPriorityManager.should_interrupt
ShouldInterrupt(current_priority, new_priority) ==
    (new_priority - current_priority) >= InterruptMargin

NoReact ==
    [handler |-> "none", event |-> "none", active |-> "none",
     interrupted |-> FALSE, spoken |-> FALSE]

\* no comment is being spoken and no reaction has run
ReactConstructed ==
    /\ speaking_event = "none"
    /\ last_react = NoReact

\* the comment playing after a reaction: interrupt() stops the active one; the
\* new comment, when one was produced, plays as soon as the engine is free
SpeakingAfter(called, spoken, event) ==
    IF called THEN (IF spoken THEN event ELSE "none")
    ELSE IF speaking_event = "none" /\ spoken THEN event
    ELSE speaking_event

\* the record of a reaction; interrupt() acts only on a comment in progress
Reaction(handler, event, called, spoken) ==
    [handler |-> handler, event |-> event, active |-> speaking_event,
     interrupted |-> called /\ speaking_event # "none", spoken |-> spoken]

\* IrisBrainV2.react_to_kill: with the integration present the priority is
\* get_priority('kill', context) and interrupt() is called when it is >= 75
ReactToKill(integrated, spoken) ==
    LET called == integrated /\ GetPriority("kill") >= HIGH IN
    /\ last_react' = Reaction("react_to_kill", "kill", called, spoken)
    /\ speaking_event' = SpeakingAfter(called, spoken, "kill")
    /\ UNCHANGED <<coreVars, lateVars>>
    /\ UNCHANGED <<hookVars, procVars>>

\* IrisBrainV2.react_to_low_health: interrupt() is called without a test
ReactToLowHealth(spoken) ==
    /\ last_react' = Reaction("react_to_low_health", "low_health", TRUE, spoken)
    /\ speaking_event' = SpeakingAfter(TRUE, spoken, "low_health")
    /\ UNCHANGED <<coreVars, lateVars>>
    /\ UNCHANGED <<hookVars, procVars>>

\* IrisBrain.generate_response: after the cooldown check, with the integration
\* present, interrupt() is called when the priority of the event is >= 100
GenerateResponse(event_type, passes, integrated, spoken) ==
    LET called == passes /\ integrated /\ GetPriority(event_type) >= CRITICAL IN
    /\ last_react' = Reaction("generate_response", event_type, called, passes /\ spoken)
    /\ speaking_event' = SpeakingAfter(called, passes /\ spoken, event_type)
    /\ UNCHANGED <<coreVars, lateVars>>
    /\ UNCHANGED <<hookVars, procVars>>

\* the comment being spoken ends
UtteranceEnds ==
    /\ speaking_event # "none"
    /\ speaking_event' = "none"
    /\ UNCHANGED last_react
    /\ UNCHANGED <<coreVars, lateVars>>
    /\ UNCHANGED <<hookVars, procVars>>

ReactNext ==
    \/ \E i, s \in BOOLEAN : ReactToKill(i, s)
    \/ \E s \in BOOLEAN : ReactToLowHealth(s)
    \/ \E e \in ReactEvents \ {"low_health"}, p, i, s \in BOOLEAN :
          GenerateResponse(e, p, i, s)
    \/ UtteranceEnds

(***************************************************************************)
(* AsyncEventProcessor (src/iris_event_processor.py): process_event with   *)
(* the prompt cache and the IRIS server as the text-generation collaborator *)
(***************************************************************************)

\* a payload field that the event does not carry (dict.get uses its default)
\* is Absent; events carry these payload fields and their time of emission
ProcEvents ==
    [type : {"kill", "low_ammo_warning", "round_start"},
     round_kills : {Absent, 1, 2},
     ammo_magazine : {3, 8},
     timestamp : {1, 2}]

\* response texts of the IRIS server
Responses == {"text_a", "text_b"}

\* a prompt that also carries the time of the event
PromptWithTimestamp(event) ==
    IF event.type = "kill"
    THEN [template |-> "kill", value |-> Get(event.round_kills, 1) + 10 * event.timestamp]
    ELSE IF event.type = "low_ammo_warning" /\ event.ammo_magazine <= 5
    THEN [template |-> "low_ammo", value |-> event.ammo_magazine + 10 * event.timestamp]
    ELSE [template |-> "none", value |-> 0]

\* the prompt built by the handler of the event type: the template and the
\* payload values formatted into it; "none" when the handler sends nothing
\* (_handle_kill reads round_kills with default 1, _handle_low_ammo builds a
\* prompt only for ammo <= 5, process_event has no handler for other types)
Prompt(event) ==
    IF event.type = "kill"
    THEN [template |-> "kill", value |-> Get(event.round_kills, 1)]
    ELSE IF event.type = "low_ammo_warning" /\ event.ammo_magazine <= 5
    THEN [template |-> "low_ammo", value |-> event.ammo_magazine]
    ELSE [template |-> "none", value |-> 0]

\* _get_prompt_cache_key: the MD5 digest of the prompt, a number that differs
\* for prompts that differ
CacheKey(prompt) ==
    (IF prompt.template = "kill" THEN 100 ELSE 200) + prompt.value

\* the keys of the prompts the events can produce
CacheKeys == {CacheKey(Prompt(e)) : e \in {x \in ProcEvents : Prompt(x).template # "none"}}

\* the result of a process_event call: what it returned, whether the cache
\* answered, and the requests it made to the server
NoCall ==
    [event |-> [type |-> "none", round_kills |-> Absent, ammo_magazine |-> 3,
                timestamp |-> 1],
     key |-> 0, returned |-> "None", hit |-> FALSE, cached_before |-> FALSE,
     health_checks |-> 0, posts |-> 0]

\* AsyncEventProcessor.__init__: an empty cache
ProcConstructed ==
    /\ prompt_cache = [k \in {} |-> "None"]
    /\ iris_up = TRUE
    /\ proc_last = NoCall

\* process_event(event_type, event_data): the health check of is_iris_ready,
\* the handler of the type, _send_to_iris_cached and _send_to_iris; reply is
\* what the server answers to POST /say when it is reachable
ProcessEvent(event, reply) ==
    LET prompt == Prompt(event)
        key == CacheKey(prompt)
        cached == key \in DOMAIN prompt_cache
        call == [NoCall EXCEPT !.event = event,
                               !.key = IF prompt.template = "none" THEN 0 ELSE key,
                               !.cached_before = prompt.template # "none" /\ cached,
                               !.health_checks = 1]
    IN
    /\ reply \in Responses \cup {"status_500"}
    /\ IF ~iris_up \/ prompt.template = "none"
       THEN /\ proc_last' = call
            /\ prompt_cache' = prompt_cache
       ELSE IF cached
       THEN /\ proc_last' = [call EXCEPT !.returned = prompt_cache[key], !.hit = TRUE]
            /\ prompt_cache' = prompt_cache
       ELSE IF reply \in Responses
       THEN /\ proc_last' = [call EXCEPT !.returned = reply, !.posts = 1]
            /\ prompt_cache' = [k \in DOMAIN prompt_cache \cup {key} |->
                                   IF k = key THEN reply ELSE prompt_cache[k]]
       ELSE /\ proc_last' = [call EXCEPT !.posts = 1]
            /\ prompt_cache' = prompt_cache
    /\ UNCHANGED iris_up
    /\ UNCHANGED <<coreVars, lateVars>>
    /\ UNCHANGED <<hookVars, reactVars>>

\* the IRIS server goes down or comes back
ServerToggle ==
    /\ iris_up' = ~iris_up
    /\ UNCHANGED <<prompt_cache, proc_last>>
    /\ UNCHANGED <<coreVars, lateVars>>
    /\ UNCHANGED <<hookVars, reactVars>>

ProcNext ==
    \/ \E event \in ProcEvents, reply \in Responses \cup {"status_500"} :
          ProcessEvent(event, reply)
    \/ ServerToggle

(***************************************************************************)
(* start() and stop() of TTSQueueManager (queue_manager.py 76-95) and of   *)
(* TTSEngine (tts_engine.py 500-540) with the loops they start: every loop *)
(* tests self.is_running at the head of each iteration and nowhere else.   *)
(* One application thread makes the calls, one after the other.  join()    *)
(* waits at most 2 s: an iteration of _process_loop (sleeps of 0.05-0.1 s, *)
(* a non-blocking speak) and the get(timeout=0.5) and the playback of      *)
(* _process_queue (stopped by the flush() of stop()) end within that time, *)
(* the synthesis of an utterance (a network call without a timeout) need   *)
(* not.                                                                    *)
(***************************************************************************)

Runners == {"TTSQueueManager", "TTSEngine"}

\* loop threads one object can start
MaxThreads == 3

ThreadIds == 1..MaxThreads

LifeConstructed ==
    /\ is_running = [o \in Runners |-> FALSE]
    /\ loop_pc = [o \in Runners |-> [i \in ThreadIds |-> "unborn"]]
    /\ processor_thread = [o \in Runners |-> 0]
    /\ caller = [pc |-> "idle", of |-> "none"]

\* threading.Thread.is_alive()
IsAlive(o, i) == loop_pc[o][i] \in {"while", "body", "get", "synth", "play"}

\* the threads object o has created
Started(o) == {i \in ThreadIds : loop_pc[o][i] # "unborn"}

\* start() of either object: nothing when is_running, else a new loop thread
Start(o) ==
    /\ caller.pc = "idle"
    /\ IF is_running[o]
       THEN UNCHANGED lifeVars
       ELSE LET i == Cardinality(Started(o)) + 1 IN
            /\ i <= MaxThreads
            /\ is_running' = [is_running EXCEPT ![o] = TRUE]
            /\ loop_pc' = [loop_pc EXCEPT ![o][i] = "while"]
            /\ processor_thread' = [processor_thread EXCEPT ![o] = i]
            /\ UNCHANGED caller
    /\ UNCHANGED notLife

\* TTSQueueManager.stop(): clears the flag, then joins the thread it holds
ManagerStop ==
    LET o == "TTSQueueManager" IN
    /\ caller.pc = "idle"
    /\ is_running' = [is_running EXCEPT ![o] = FALSE]
    /\ caller' = IF processor_thread[o] # 0 /\ IsAlive(o, processor_thread[o])
                 THEN [pc |-> "join", of |-> o]
                 ELSE caller
    /\ UNCHANGED <<loop_pc, processor_thread>>
    /\ UNCHANGED notLife

\* TTSEngine.stop(): nothing when not running; else flush(), clear the flag
\* and join the thread it holds when that thread is alive
EngineStop ==
    LET o == "TTSEngine" IN
    /\ caller.pc = "idle"
    /\ IF ~is_running[o]
       THEN UNCHANGED <<is_running, caller>>
       ELSE /\ is_running' = [is_running EXCEPT ![o] = FALSE]
            /\ caller' = IF processor_thread[o] # 0 /\ IsAlive(o, processor_thread[o])
                         THEN [pc |-> "join", of |-> o]
                         ELSE caller
    /\ UNCHANGED <<loop_pc, processor_thread>>
    /\ UNCHANGED notLife

\* join() returns because the joined thread has ended
JoinReturns ==
    /\ caller.pc = "join"
    /\ ~IsAlive(caller.of, processor_thread[caller.of])
    /\ caller' = [pc |-> "idle", of |-> "none"]
    /\ UNCHANGED <<is_running, loop_pc, processor_thread>>
    /\ UNCHANGED notLife

\* join(timeout=2.0) returns while the joined thread is still synthesising
JoinTimesOut ==
    /\ caller.pc = "join"
    /\ loop_pc[caller.of][processor_thread[caller.of]] = "synth"
    /\ caller' = [pc |-> "idle", of |-> "none"]
    /\ UNCHANGED <<is_running, loop_pc, processor_thread>>
    /\ UNCHANGED notLife

\* `while self.is_running:` of either loop
LoopWhile(o, i) ==
    /\ loop_pc[o][i] = "while"
    /\ loop_pc' = [loop_pc EXCEPT ![o][i] =
                      IF ~is_running[o] THEN "exited"
                      ELSE IF o = "TTSEngine" THEN "get" ELSE "body"]
    /\ UNCHANGED <<is_running, processor_thread, caller>>
    /\ UNCHANGED notLife

\* one iteration of TTSQueueManager._process_loop
LoopBody(i) ==
    /\ loop_pc["TTSQueueManager"][i] = "body"
    /\ loop_pc' = [loop_pc EXCEPT !["TTSQueueManager"][i] = "while"]
    /\ UNCHANGED <<is_running, processor_thread, caller>>
    /\ UNCHANGED notLife

\* message_queue.get(timeout=0.5) of TTSEngine._process_queue: a message, or
\* queue.Empty and `continue`
LoopGet(i) ==
    /\ loop_pc["TTSEngine"][i] = "get"
    /\ \E next \in {"synth", "while"} :
           loop_pc' = [loop_pc EXCEPT !["TTSEngine"][i] = next]
    /\ UNCHANGED <<is_running, processor_thread, caller>>
    /\ UNCHANGED notLife

\* the synthesis ends: playback begins
LoopSynth(i) ==
    /\ loop_pc["TTSEngine"][i] = "synth"
    /\ loop_pc' = [loop_pc EXCEPT !["TTSEngine"][i] = "play"]
    /\ UNCHANGED <<is_running, processor_thread, caller>>
    /\ UNCHANGED notLife

\* the playback ends (or is stopped): back to the head of the loop
LoopPlay(i) ==
    /\ loop_pc["TTSEngine"][i] = "play"
    /\ loop_pc' = [loop_pc EXCEPT !["TTSEngine"][i] = "while"]
    /\ UNCHANGED <<is_running, processor_thread, caller>>
    /\ UNCHANGED notLife

LifeNext ==
    \/ \E o \in Runners : Start(o)
    \/ ManagerStop
    \/ EngineStop
    \/ JoinReturns
    \/ JoinTimesOut
    \/ \E o \in Runners, i \in ThreadIds : LoopWhile(o, i)
    \/ \E i \in ThreadIds : LoopBody(i)
    \/ \E i \in ThreadIds : LoopGet(i)
    \/ \E i \in ThreadIds : LoopSynth(i)
    \/ \E i \in ThreadIds : LoopPlay(i)

(***************************************************************************)
(* Classification of events: EventPriorityManager.get_priority with the    *)
(* event's data (iris_smart_engine.py 95-125) and the processor's table    *)
(* EVENT_PRIORITIES (iris_event_processor.py 67-77, 144-146)               *)
(***************************************************************************)

\* the keys of self.event_weights
WeightedEvents ==
    {"low_health", "low_ammo_warning", "death", "ace", "quadra_kill", "triple_kill",
     "double_kill", "kill", "heavy_damage", "bomb_planted", "bomb_defused",
     "round_start", "round_end"}

\* event types get_priority is called with: the keys of the table, two types
\* the diff engine emits that the table lacks, and the two keys only
\* EVENT_PRIORITIES has
ClassEvents == WeightedEvents \cup {"bomb_exploded", "match_end", "low_ammo", "quad_kill"}

\* current_health of the event data
HealthData == {Absent, 0, 1, 2, 15, 50, 100}

\* event_data: None or an empty dict (not given), or a dict with or without
\* the key current_health
EventData ==
    {[given |-> FALSE, current_health |-> Absent]}
        \cup {[given |-> TRUE, current_health |-> h] : h \in HealthData}

\* self.event_weights as __init__ fills it
EventWeights == [t \in WeightedEvents |-> GetPriority(t)]

NoClassification ==
    [event_type |-> "none", given |-> FALSE, current_health |-> Absent,
     priority |-> 0, order |-> 0]

ClsConstructed ==
    /\ event_weights = EventWeights
    /\ classified = NoClassification

\* get_priority with an unknown type classified as MEDIUM
GetPriorityDefaultMedium(weights, event_type, event_data) ==
    LET priority == IF event_type \in DOMAIN weights THEN weights[event_type] ELSE MEDIUM IN
    IF event_type = "low_health" /\ event_data.given
          /\ Get(event_data.current_health, 50) <= 1
    THEN CRITICAL
    ELSE priority

\* EventPriorityManager.get_priority(event_type, event_data)
GetPriorityOfEvent(weights, event_type, event_data) ==
    LET priority == IF event_type \in DOMAIN weights THEN weights[event_type] ELSE LOW IN
    IF event_type = "low_health" /\ event_data.given
          /\ Get(event_data.current_health, 50) <= 1
    THEN CRITICAL
    ELSE priority

\* AsyncEventProcessor._get_event_priority: EVENT_PRIORITIES.get(event_type, 10)
GetEventPriority(event_type) ==
    CASE event_type = "low_health" -> 1
      [] event_type = "low_ammo" -> 2
      [] event_type = "death" -> 3
      [] event_type \in {"double_kill", "triple_kill", "quad_kill"} -> 4
      [] event_type = "kill" -> 5
      [] OTHER -> 10

\* one call of get_priority (and of _get_event_priority) for an event
GetPriorityCall(event_type, event_data) ==
    /\ classified' = [event_type |-> event_type,
                      given |-> event_data.given,
                      current_health |-> event_data.current_health,
                      priority |-> GetPriorityOfEvent(event_weights, event_type, event_data),
                      order |-> GetEventPriority(event_type)]
    /\ UNCHANGED event_weights
    /\ UNCHANGED notCls

ClsNext == \E event_type \in ClassEvents, event_data \in EventData :
               GetPriorityCall(event_type, event_data)

(***************************************************************************)
(* Two CS2GameStateIntegration objects constructed alike that are sent the *)
(* same requests in the same order, each at wall-clock times of its own:   *)
(* between two requests the 3.0 s that line 182 measures with time.time()  *)
(* may have passed for one engine and not for the other.                   *)
(***************************************************************************)

ReplayConstructed ==
    /\ run_a = [g |-> HookStore, events |-> <<>>]
    /\ run_b = [g |-> HookStore, events |-> <<>>]

\* gsi_handler of one engine
Served(run, req) ==
    LET r == ProcessRequest(run.g, req) IN [g |-> r.g, events |-> r.events]

\* the same request reaches both engines
ReplayPost(req) ==
    /\ run_a' = Served(run_a, req)
    /\ run_b' = Served(run_b, req)
    /\ UNCHANGED notReplay

\* time.time() of the first engine passes the 3.0 s after its last warning
ClockA ==
    /\ run_a.g.warned_recently
    /\ run_a' = [run_a EXCEPT !.g.warned_recently = FALSE]
    /\ UNCHANGED run_b
    /\ UNCHANGED notReplay

\* time.time() of the second engine passes the 3.0 s after its last warning
ClockB ==
    /\ run_b.g.warned_recently
    /\ run_b' = [run_b EXCEPT !.g.warned_recently = FALSE]
    /\ UNCHANGED run_a
    /\ UNCHANGED notReplay

ReplayNext ==
    \/ \E req \in Requests : ReplayPost(req)
    \/ ClockA
    \/ ClockB

(***************************************************************************)
(* CS2GameStateIntegration: the kill streak, the round section with the    *)
(* bomb and the map section (_process_game_state lines 125-242), requests  *)
(* served one at a time.  Followed here: the player's match kills, the     *)
(* round phase, the bomb, the map phase and the round number; the          *)
(* snapshots carry no round_kills, so the stored value stays 0.            *)
(***************************************************************************)

\* match kills and round numbers the snapshots carry
MaxMatchKills == 1
MaxRound == 2
\* requests that would take the kill streak above this are left out
MaxKillStreak == 2

\* PlayerState(), RoundState() and MapState() as constructed, with
\* kill_streak and round_start_kills of __init__
MatchStore ==
    [kills |-> 0, kill_streak |-> 0, round_start_kills |-> 0,
     phase |-> "", bomb |-> "", map_phase |-> "", round |-> 0]

\* a snapshot: each section is a dict that may lack any of its keys; map_name
\* stands for a map section that carries the name of the map and nothing else
MatchRequests ==
    {req \in [kills : {Absent} \cup 1..MaxMatchKills,
              phase : {NoField, "freezetime", "live"},
              bomb : {NoField, "planted", "defused", "exploded"},
              map_name : BOOLEAN,
              map_phase : {NoField, "live", "gameover"},
              round : {Absent} \cup 1..MaxRound] :
        req.map_name => (req.map_phase = NoField /\ req.round = Absent)}

\* line 126: player_data is a non-empty dict
HasPlayerData(req) == req.kills # Absent

\* line 204: round_data is a non-empty dict
HasRoundData(req) == req.phase # NoField \/ req.bomb # NoField

\* line 230: map_data is a non-empty dict
HasMapData(req) == req.map_name \/ req.map_phase # NoField \/ req.round # Absent

\* lines 140 and 191-192 with _emit_kill_event (317-339)
MatchPlayerSection(m, req) ==
    LET kills == Get(req.kills, m.kills) IN
    IF kills > m.kills
    THEN [m |-> [m EXCEPT !.kills = kills, !.kill_streak = @ + (kills - m.kills)],
          events |-> <<[type |-> KillEventType(0)]>>]
    ELSE [m |-> [m EXCEPT !.kills = kills], events |-> <<>>]

\* lines 217-224 with every bomb value in the snapshot firing its event
BombEventsEverySnapshot(old_bomb, bomb) ==
    (IF bomb = "planted" THEN <<[type |-> "bomb_planted"]>> ELSE <<>>)
    \o (IF bomb = "defused" THEN <<[type |-> "bomb_defused"]>> ELSE <<>>)
    \o (IF bomb = "exploded" THEN <<[type |-> "bomb_exploded"]>> ELSE <<>>)

\* lines 217-224: the bomb events
BombEvents(old_bomb, bomb) ==
    (IF bomb = "planted" /\ old_bomb # "planted"
     THEN <<[type |-> "bomb_planted"]>> ELSE <<>>)
    \o (IF bomb = "defused" /\ old_bomb # "defused"
        THEN <<[type |-> "bomb_defused"]>> ELSE <<>>)
    \o (IF bomb = "exploded" /\ old_bomb # "exploded"
        THEN <<[type |-> "bomb_exploded"]>> ELSE <<>>)

\* the round section with round_start emitted by every snapshot whose phase is
\* freezetime
MatchRoundSectionEveryFreezetime(m, req) ==
    LET phase == GetS(req.phase, m.phase)
        bomb == GetS(req.bomb, m.bomb)
        starts == phase = "freezetime"
        ends == phase = "over" /\ m.phase # "over"
    IN [m |-> [m EXCEPT !.phase = phase, !.bomb = bomb,
                        !.kill_streak = IF starts THEN 0 ELSE @,
                        !.round_start_kills = IF starts THEN m.kills ELSE @],
        events |-> (IF starts THEN <<[type |-> "round_start"]>> ELSE <<>>)
                   \o (IF ends THEN <<[type |-> "round_end"]>> ELSE <<>>)
                   \o BombEvents(m.bomb, bomb)]

\* lines 205-224 with _emit_round_start_event (364-365)
MatchRoundSection(m, req) ==
    LET phase == GetS(req.phase, m.phase)
        bomb == GetS(req.bomb, m.bomb)
        starts == phase = "freezetime" /\ m.phase # "freezetime"
        ends == phase = "over" /\ m.phase # "over"
    IN [m |-> [m EXCEPT !.phase = phase, !.bomb = bomb,
                        !.kill_streak = IF starts THEN 0 ELSE @,
                        !.round_start_kills = IF starts THEN m.kills ELSE @],
        events |-> (IF starts THEN <<[type |-> "round_start"]>> ELSE <<>>)
                   \o (IF ends THEN <<[type |-> "round_end"]>> ELSE <<>>)
                   \o BombEvents(m.bomb, bomb)]

\* lines 231-242: old_round is saved and not used again
MatchMapSection(m, req) ==
    LET old_round == m.round
        map_phase == GetS(req.map_phase, m.map_phase)
    IN [m |-> [m EXCEPT !.map_phase = map_phase, !.round = Get(req.round, m.round)],
        events |-> IF map_phase = "gameover" THEN <<[type |-> "match_end"]>> ELSE <<>>]

\* _process_game_state: the player, round and map sections in this order
ProcessMatch(m, req) ==
    LET ps == IF HasPlayerData(req) THEN MatchPlayerSection(m, req)
              ELSE [m |-> m, events |-> <<>>]
        rs == IF HasRoundData(req) THEN MatchRoundSection(ps.m, req)
              ELSE [m |-> ps.m, events |-> <<>>]
        gm == IF HasMapData(req) THEN MatchMapSection(rs.m, req)
              ELSE [m |-> rs.m, events |-> <<>>]
    IN [m |-> gm.m, events |-> ps.events \o rs.events \o gm.events]

\* CS2GameStateIntegration.__init__
MatchConstructed ==
    /\ ms = MatchStore
    /\ ms_events = <<>>

\* one POST to the webhook
MatchPost(req) ==
    LET r == ProcessMatch(ms, req) IN
    /\ r.m.kill_streak <= MaxKillStreak
    /\ ms' = r.m
    /\ ms_events' = r.events
    /\ UNCHANGED notMatch

MatchNext == \E req \in MatchRequests : MatchPost(req)

(***************************************************************************)
(* IrisBrain (src/src/iris_brain.py): the react_to_* methods and the       *)
(* cooldown of generate_response (_can_respond, _mark_responded), calls    *)
(* made one after the other                                                *)
(***************************************************************************)

\* time.time() when the brain is constructed, and the seconds followed after it
IrisStart == 10
IrisHorizon == 6

\* the event types whose response times are followed
IrisTypes ==
    {"kill", "death", "low_health", "round_end",
     "bomb_planted", "bomb_defused", "bomb_exploded"}

\* self.cooldowns.get(event_str, 10.0)
IrisCooldown(event_str) ==
    CASE event_str = "kill" -> 3
      [] event_str = "death" -> 5
      [] event_str = "round_end" -> 2
      [] OTHER -> 10

\* the reactions: react_to_kill, react_to_death, react_to_low_health,
\* react_to_round_end and react_to_bomb_event with its three event kinds
Reactions == {"kill", "death", "low_health", "round_end", "plant", "defuse", "explode"}

\* the EventType each react_to_* method passes to generate_response
PassedType(reaction) ==
    CASE reaction = "kill" -> "kill"
      [] reaction = "death" -> "death"
      [] reaction = "low_health" -> "death"
      [] reaction = "round_end" -> "round_end"
      [] OTHER -> "bomb_exploded"

\* health values react_to_low_health is called with
ReactHealth == {0, 20, 60}

NoReaction == [reaction |-> "none", health |-> 0, responded |-> FALSE]

\* IrisBrain.__init__: last_response_times is an empty defaultdict(float)
IrisConstructed ==
    /\ iris_last_response_times = [t \in IrisTypes |-> 0]
    /\ iris_now = IrisStart
    /\ iris_react = NoReaction

\* _can_respond for the game events (the chat branch is not reached)
IrisCanRespond(event_str) ==
    ~(iris_now - iris_last_response_times[event_str] < IrisCooldown(event_str))

\* generate_response(prompt, event_type) with force=False: None during the
\* cooldown, else a response (the fallback texts are never empty) and
\* _mark_responded(event_type)
IrisGenerateResponse(reaction, health, event_str) ==
    IF IrisCanRespond(event_str)
    THEN /\ iris_last_response_times' =
                [iris_last_response_times EXCEPT ![event_str] = iris_now]
         /\ iris_react' = [reaction |-> reaction, health |-> health, responded |-> TRUE]
    ELSE /\ UNCHANGED iris_last_response_times
         /\ iris_react' = [reaction |-> reaction, health |-> health, responded |-> FALSE]

\* react_to_kill, react_to_death, react_to_round_end
IrisReactToEvent(reaction) ==
    /\ reaction \in {"kill", "death", "round_end"}
    /\ IrisGenerateResponse(reaction, 0, PassedType(reaction))
    /\ UNCHANGED iris_now
    /\ UNCHANGED notIris

\* react_to_low_health(health): nothing for health <= 0 or above 50
IrisReactToLowHealth(health) ==
    /\ IF health <= 0 \/ health > 50
       THEN /\ UNCHANGED iris_last_response_times
            /\ iris_react' = [reaction |-> "low_health", health |-> health,
                              responded |-> FALSE]
       ELSE IrisGenerateResponse("low_health", health, PassedType("low_health"))
    /\ UNCHANGED iris_now
    /\ UNCHANGED notIris

\* react_to_bomb_event(event_type, event_data) for 'plant', 'defuse', 'explode'
IrisReactToBombEvent(kind) ==
    /\ kind \in {"plant", "defuse", "explode"}
    /\ IrisGenerateResponse(kind, 0, PassedType(kind))
    /\ UNCHANGED iris_now
    /\ UNCHANGED notIris

\* a second passes
IrisTick ==
    /\ iris_now < IrisStart + IrisHorizon
    /\ iris_now' = iris_now + 1
    /\ UNCHANGED <<iris_last_response_times, iris_react>>
    /\ UNCHANGED notIris

IrisNext ==
    \/ \E reaction \in {"kill", "death", "round_end"} : IrisReactToEvent(reaction)
    \/ \E health \in ReactHealth : IrisReactToLowHealth(health)
    \/ \E kind \in {"plant", "defuse", "explode"} : IrisReactToBombEvent(kind)
    \/ IrisTick

(***************************************************************************)
(* TTSQueueManager (queue_manager.py 30-135): add() and the consumer       *)
(* thread of _process_loop, with a tts.speak() that may raise and callers  *)
(* that never stop adding.  Time is kept relative: what the loop compares  *)
(* is time.time() - self.last_speak_time, followed up to the debounce      *)
(* interval.  add() appends under the lock with the time of the call, so   *)
(* the deque is in timestamp order and the oldest item of a priority is    *)
(* the leftmost one.  The manager is started and is not stopped.           *)
(***************************************************************************)

\* ids of the items alive at one time: the queued ones and the one the loop holds
LoopIds == 1..(MaxQueueSize + 1)
NoItem == [id |-> 0, priority |-> 0]
NoLoopCall == [call |-> "none", id |-> 0, ok |-> TRUE]

\* TTSQueueManager.__init__ (last_speak_time = 0.0 is far in the past), then start()
LoopConstructed ==
    /\ loop_queue = <<>>
    /\ loop_elapsed = DebounceInterval
    /\ loop_gap = DebounceInterval
    /\ loop_at = [pc |-> "debounce", item |-> NoItem]
    /\ loop_busy = FALSE
    /\ loop_spoken = [i \in LoopIds |-> 0]
    /\ loop_last = NoLoopCall

\* ids of the items in q
IdsOf(q) == {q[i].id : i \in 1..Len(q)}

\* an id no live item carries
FreeId == CHOOSE i \in LoopIds : i \notin IdsOf(loop_queue) /\ i # loop_at.item.id

\* add(): lines 62-74 under self.lock; a full queue is left alone and False returned
LoopAdd(priority) ==
    /\ IF Len(loop_queue) >= MaxQueueSize
       THEN /\ loop_last' = [call |-> "add", id |-> 0, ok |-> FALSE]
            /\ UNCHANGED <<loop_queue, loop_spoken>>
       ELSE /\ loop_queue' = Append(loop_queue, [id |-> FreeId, priority |-> priority])
            /\ loop_spoken' = [loop_spoken EXCEPT ![FreeId] = 0]
            /\ loop_last' = [call |-> "add", id |-> FreeId, ok |-> TRUE]
    /\ UNCHANGED <<loop_elapsed, loop_gap, loop_at, loop_busy>>
    /\ UNCHANGED notLoop

\* lines 100-105: the debounce test; the thread sleeps and tests again when it fails
LoopDebounce ==
    /\ loop_at.pc = "debounce"
    /\ ~(loop_elapsed < DebounceInterval)
    /\ loop_at' = [loop_at EXCEPT !.pc = "busy"]
    /\ UNCHANGED <<loop_queue, loop_elapsed, loop_gap, loop_busy, loop_spoken, loop_last>>
    /\ UNCHANGED notLoop

\* lines 108-110: tts.is_busy() sends the thread back to the head of the loop
LoopBusy ==
    /\ loop_at.pc = "busy"
    /\ loop_at' = [loop_at EXCEPT !.pc = IF loop_busy THEN "debounce" ELSE "select"]
    /\ UNCHANGED <<loop_queue, loop_elapsed, loop_gap, loop_busy, loop_spoken, loop_last>>
    /\ UNCHANGED notLoop

\* line 118: max(self.queue, key=(priority, -timestamp)) on a deque in timestamp order
LoopMax(q) ==
    CHOOSE i \in 1..Len(q) :
        /\ \A j \in 1..Len(q) : q[j].priority <= q[i].priority
        /\ \A j \in 1..(i - 1) : q[j].priority < q[i].priority

\* line 119 left out: the selected item stays in the queue
LoopRemoveNothing(q, i) == q

\* line 119: self.queue.remove(item)
LoopRemove(q, i) == RemoveAt(q, i)

\* lines 112-119 under self.lock: an empty queue sends the thread back to the head
LoopSelect ==
    /\ loop_at.pc = "select"
    /\ IF loop_queue = <<>>
       THEN /\ loop_at' = [loop_at EXCEPT !.pc = "debounce"]
            /\ UNCHANGED loop_queue
       ELSE /\ loop_at' = [pc |-> "speak", item |-> loop_queue[LoopMax(loop_queue)]]
            /\ loop_queue' = LoopRemove(loop_queue, LoopMax(loop_queue))
    /\ UNCHANGED <<loop_elapsed, loop_gap, loop_busy, loop_spoken, loop_last>>
    /\ UNCHANGED notLoop

\* a handler that re-raises: the consumer thread ends
LoopExceptRaise ==
    /\ loop_at' = [pc |-> "dead", item |-> NoItem]
    /\ UNCHANGED loop_queue

\* lines 134-135: the exception is logged, the next iteration follows
LoopExcept ==
    /\ loop_at' = [pc |-> "debounce", item |-> NoItem]
    /\ UNCHANGED loop_queue

\* line 123: tts.speak(item) is called: it queues the utterance and returns, or raises
LoopSpeak(ok) ==
    /\ loop_at.pc = "speak"
    /\ loop_spoken' = [loop_spoken EXCEPT ![loop_at.item.id] = IF @ < 2 THEN @ + 1 ELSE @]
    /\ loop_last' = [call |-> "speak", id |-> loop_at.item.id, ok |-> ok]
    /\ loop_gap' = 0
    /\ IF ok
       THEN /\ loop_at' = [loop_at EXCEPT !.pc = "stamp"]
            /\ loop_busy' = TRUE
            /\ UNCHANGED loop_queue
       ELSE /\ LoopExcept
            /\ UNCHANGED loop_busy
    /\ UNCHANGED loop_elapsed
    /\ UNCHANGED notLoop

\* line 124: self.last_speak_time = time.time(), reached when speak() returned
LoopStamp ==
    /\ loop_at.pc = "stamp"
    /\ loop_elapsed' = 0
    /\ loop_at' = [pc |-> "debounce", item |-> NoItem]
    /\ UNCHANGED <<loop_queue, loop_gap, loop_busy, loop_spoken, loop_last>>
    /\ UNCHANGED notLoop

\* the speech engine has played the utterance: is_busy() is False again
LoopUtteranceEnds ==
    /\ loop_busy
    /\ loop_busy' = FALSE
    /\ UNCHANGED <<loop_queue, loop_elapsed, loop_gap, loop_at, loop_spoken, loop_last>>
    /\ UNCHANGED notLoop

\* one debounce interval of wall-clock time passes
LoopTick ==
    /\ loop_elapsed' = IF loop_elapsed < DebounceInterval THEN loop_elapsed + 1 ELSE loop_elapsed
    /\ loop_gap' = IF loop_gap < DebounceInterval THEN loop_gap + 1 ELSE loop_gap
    /\ UNCHANGED <<loop_queue, loop_at, loop_busy, loop_spoken, loop_last>>
    /\ UNCHANGED notLoop

\* the steps of the consumer thread
LoopThread ==
    \/ LoopDebounce
    \/ LoopBusy
    \/ LoopSelect
    \/ \E ok \in BOOLEAN : LoopSpeak(ok)
    \/ LoopStamp

LoopNext ==
    \/ \E priority \in Priorities : LoopAdd(priority)
    \/ LoopThread
    \/ LoopUtteranceEnds
    \/ LoopTick

(***************************************************************************)
(* AsyncEventProcessor (iris_event_processor.py 152-165, 392-416): the     *)
(* events that queue_event puts on the priority queue, the worker thread   *)
(* that takes them off and submits process_event to the thread pool, and   *)
(* the ways a process_event ends: with the text of the IRIS server, with   *)
(* None (server down, status, timeout: 186-190, 372-390) or by raising.    *)
(***************************************************************************)

\* number of events the game sends
MaxEvents == 2
WorkIds == 1..MaxEvents
WorkTypes == {"low_health", "kill"}
\* how a process_event can end
Outcomes == {"text", "none", "raised"}

\* AsyncEventProcessor.__init__, then process_queue_async()
WorkConstructed ==
    /\ event_queue = {}
    /\ pool = {}
    /\ work_outcome = [i \in WorkIds |-> "pending"]
    /\ queued_events = 0

\* queue_event (157-162): put((priority, timestamp, event_type, event_data))
QueueEvent(event_type) ==
    /\ queued_events < MaxEvents
    /\ event_queue' = event_queue \cup {[priority |-> GetEventPriority(event_type),
                                         timestamp |-> queued_events + 1,
                                         event_type |-> event_type]}
    /\ queued_events' = queued_events + 1
    /\ UNCHANGED <<pool, work_outcome>>
    /\ UNCHANGED notWork

\* PriorityQueue.get: the smallest (priority, timestamp, ...) tuple
QueueHead(q) ==
    CHOOSE e \in q : \A f \in q : \/ e.priority < f.priority
                                  \/ (e.priority = f.priority /\ e.timestamp <= f.timestamp)

\* worker (401-412): a non-empty queue gives its head, which is submitted to the pool
WorkerTake ==
    /\ event_queue # {}
    /\ event_queue' = event_queue \ {QueueHead(event_queue)}
    /\ pool' = pool \cup {QueueHead(event_queue).timestamp}
    /\ UNCHANGED <<work_outcome, queued_events>>
    /\ UNCHANGED notWork

\* a thread of the pool ends process_event (167-209); what it returned or
\* raised stays in the Future, which nothing reads
PoolDone(i, how) ==
    /\ i \in pool
    /\ pool' = pool \ {i}
    /\ work_outcome' = [work_outcome EXCEPT ![i] = how]
    /\ UNCHANGED <<event_queue, queued_events>>
    /\ UNCHANGED notWork

WorkNext ==
    \/ \E event_type \in WorkTypes : QueueEvent(event_type)
    \/ WorkerTake
    \/ \E i \in WorkIds, how \in Outcomes : PoolDone(i, how)

(***************************************************************************)
(* IrisAssistant.process_voice_command (src/main.py 329-421): the voice    *)
(* thread handles one command after the other; a command for the AI starts *)
(* a generate_and_speak thread, which runs beside the voice thread and     *)
(* beside the generator threads started before it.  The two flags are      *)
(* plain attributes, read and written without a lock.                      *)
(***************************************************************************)

\* number of generator threads and of voice commands followed
MaxGen == 2
MaxCommands == 4
GenIds == 1..MaxGen
\* what ai.generate gives: a text, an empty text, or an exception
GenOutcomes == {"text", "empty", "raised"}
NoGen == [pc |-> "none", outcome |-> "none", said |-> "none", stopped |-> FALSE]

\* IrisAssistant.__init__, lines 209-212
VoiceConstructed ==
    /\ is_currently_generating = FALSE
    /\ should_stop_speaking = FALSE
    /\ gen = [t \in GenIds |-> NoGen]
    /\ commands = 0

\* the generate_and_speak threads that were started and have not finished
Unfinished == {t \in GenIds : gen[t].pc \notin {"none", "done"}}

\* the threads whose ai.generate is running or has not passed on its result
InFlight == {t \in GenIds : gen[t].pc \in {"generating", "check"}}

\* lines 346-352: a STOP command sets should_stop_speaking, clears
\* is_currently_generating, interrupts the speech and acknowledges
VoiceStop ==
    /\ commands < MaxCommands
    /\ commands' = commands + 1
    /\ should_stop_speaking' = TRUE
    /\ is_currently_generating' = FALSE
    /\ gen' = [t \in GenIds |-> IF t \in InFlight THEN [gen[t] EXCEPT !.stopped = TRUE] ELSE gen[t]]
    /\ UNCHANGED notVoice

\* the thread that a command for the AI starts: the lowest unused one
NextGen == CHOOSE t \in GenIds : gen[t].pc = "none" /\ \A u \in GenIds : gen[u].pc = "none" => t <= u

\* lines 372-374 and 415-420: a command for the AI returns when the flag is
\* set, and starts a generate_and_speak thread otherwise
VoiceAsk ==
    /\ commands < MaxCommands
    /\ commands' = commands + 1
    /\ IF is_currently_generating
       THEN UNCHANGED gen
       ELSE /\ \E t \in GenIds : gen[t].pc = "none"
            /\ gen' = [gen EXCEPT ![NextGen].pc = "started"]
    /\ UNCHANGED <<is_currently_generating, should_stop_speaking>>
    /\ UNCHANGED notVoice

\* lines 383-384: the thread sets the one flag and clears the other
GenBegin(t) ==
    /\ gen[t].pc = "started"
    /\ is_currently_generating' = TRUE
    /\ should_stop_speaking' = FALSE
    /\ gen' = [gen EXCEPT ![t].pc = "generating"]
    /\ UNCHANGED commands
    /\ UNCHANGED notVoice

\* line 389: self.ai.generate returns or raises
GenReturn(t, outcome) ==
    /\ gen[t].pc = "generating"
    /\ gen' = [gen EXCEPT ![t].pc = "check", ![t].outcome = outcome]
    /\ UNCHANGED <<is_currently_generating, should_stop_speaking, commands>>
    /\ UNCHANGED notVoice

\* lines 392-395 and 405-407: the test of should_stop_speaking before the
\* response, or after an exception the error message, is spoken
GenCheck(t) ==
    /\ gen[t].pc = "check"
    /\ gen' = [gen EXCEPT ![t].pc = IF should_stop_speaking THEN "finally" ELSE "speak"]
    /\ is_currently_generating' =
           IF gen[t].outcome # "raised" /\ should_stop_speaking
           THEN FALSE ELSE is_currently_generating
    /\ UNCHANGED <<should_stop_speaking, commands>>
    /\ UNCHANGED notVoice

\* lines 398-403 and 408: tts.speak with the response, with the filler for an
\* empty response, or with the error message
GenSpeak(t) ==
    /\ gen[t].pc = "speak"
    /\ gen' = [gen EXCEPT ![t].pc = "finally",
                          ![t].said = CASE gen[t].outcome = "text" -> "response"
                                        [] gen[t].outcome = "empty" -> "filler"
                                        [] OTHER -> "error"]
    /\ UNCHANGED <<is_currently_generating, should_stop_speaking, commands>>
    /\ UNCHANGED notVoice

\* lines 410-412: finally clears is_currently_generating
GenFinally(t) ==
    /\ gen[t].pc = "finally"
    /\ is_currently_generating' = FALSE
    /\ gen' = [gen EXCEPT ![t].pc = "done"]
    /\ UNCHANGED <<should_stop_speaking, commands>>
    /\ UNCHANGED notVoice

VoiceNext ==
    \/ VoiceStop
    \/ VoiceAsk
    \/ \E t \in GenIds :
        \/ GenBegin(t)
        \/ \E outcome \in GenOutcomes : GenReturn(t, outcome)
        \/ GenCheck(t)
        \/ GenSpeak(t)
        \/ GenFinally(t)

(***************************************************************************)
(* IrisOrchestrator.on_cs2_event (iris_orchestrator.py 82-154) called from *)
(* several threads at once: the test of self.processing (103), its setting *)
(* (107), the reaction of the brain (110-147) and the finally clause (154)  *)
(* are separate steps of a thread; no lock is taken.                       *)
(***************************************************************************)

\* number of calling threads and of calls followed
MaxCallers == 2
MaxOrchCalls == 3
Callers == 1..MaxCallers
\* how the reaction of the brain ends: a response, None, or an exception
OrchOutcomes == {"response", "none", "raised"}

\* IrisOrchestrator.__init__, lines 76-77
OrchConstructed ==
    /\ processing = FALSE
    /\ orch = [t \in Callers |-> [pc |-> "idle", ret |-> "none"]]
    /\ event_log = 0
    /\ orch_calls = 0

\* the calls that are past the test of line 103 and have not returned
PastCheck == {t \in Callers : orch[t].pc \in {"set", "react", "finally"}}

\* a thread calls on_cs2_event(event_type, event_data)
OrchCall(t) ==
    /\ orch[t].pc = "idle"
    /\ orch_calls < MaxOrchCalls
    /\ orch_calls' = orch_calls + 1
    /\ orch' = [orch EXCEPT ![t] = [pc |-> "check", ret |-> "none"]]
    /\ UNCHANGED <<processing, event_log>>
    /\ UNCHANGED notOrch

\* lines 103-105: a set flag makes the call return None
OrchCheck(t) ==
    /\ orch[t].pc = "check"
    /\ orch' = [orch EXCEPT ![t] = IF processing THEN [pc |-> "idle", ret |-> "busy"]
                                                 ELSE [pc |-> "set", ret |-> "none"]]
    /\ UNCHANGED <<processing, event_log, orch_calls>>
    /\ UNCHANGED notOrch

\* line 107: self.processing = True
OrchSet(t) ==
    /\ orch[t].pc = "set"
    /\ processing' = TRUE
    /\ orch' = [orch EXCEPT ![t].pc = "react"]
    /\ UNCHANGED <<event_log, orch_calls>>
    /\ UNCHANGED notOrch

\* lines 110-151: the brain reacts; a response or None is appended to the
\* event log and returned, an exception is logged and None returned
OrchReact(t, outcome) ==
    /\ orch[t].pc = "react"
    /\ orch' = [orch EXCEPT ![t] = [pc |-> "finally", ret |-> outcome]]
    /\ event_log' = IF outcome = "raised" THEN event_log ELSE event_log + 1
    /\ UNCHANGED <<processing, orch_calls>>
    /\ UNCHANGED notOrch

\* lines 153-154: finally: self.processing = False, and the call returns
OrchFinally(t) ==
    /\ orch[t].pc = "finally"
    /\ processing' = FALSE
    /\ orch' = [orch EXCEPT ![t].pc = "idle"]
    /\ UNCHANGED <<event_log, orch_calls>>
    /\ UNCHANGED notOrch

OrchNext ==
    \E t \in Callers :
        \/ OrchCall(t)
        \/ OrchCheck(t)
        \/ OrchSet(t)
        \/ \E outcome \in OrchOutcomes : OrchReact(t, outcome)
        \/ OrchFinally(t)

(***************************************************************************)
(* Specifications                                                          *)
(***************************************************************************)

\* every object as constructed
Init ==
    /\ GsiConstructed /\ TtsConstructed /\ BrainConstructed
    /\ HookConstructed
    /\ ProcConstructed
    /\ ReactConstructed
    /\ LifeConstructed
    /\ ClsConstructed
    /\ ReplayConstructed
    /\ MatchConstructed
    /\ IrisConstructed
    /\ LoopConstructed
    /\ WorkConstructed
    /\ VoiceConstructed
    /\ OrchConstructed

\* webhook requests served one after the other
SpecGSI == Init /\ [][GsiNext]_vars

\* two webhook requests served concurrently
SpecGSIConc == Init /\ [][GsiConcNext]_vars

\* the queue manager, the speech engine and their callers
SpecTTS == Init /\ [][TtsNext]_vars

\* game events handled by generate_response on two threads
SpecCooldown == Init /\ [][BrainNext]_vars

\* webhook requests with bodies of any shape, served one after the other
SpecWebhook == Init /\ [][HookNext]_vars

\* reactions to game events while comments are being spoken
SpecReact == Init /\ [][ReactNext]_vars

\* events handled by process_event, one after the other
SpecProcessor == Init /\ [][ProcNext]_vars

\* start() and stop() called by one application thread, with the loops they start
SpecLifecycle == Init /\ [][LifeNext]_vars

\* events classified one after the other
SpecClassify == Init /\ [][ClsNext]_vars

\* the same requests served by two engines whose clocks differ
SpecReplay == Init /\ [][ReplayNext]_vars

\* webhook requests with kills, round, bomb and map fields, served one after the other
SpecMatch == Init /\ [][MatchNext]_vars

\* the reactions of IrisBrain, called one after the other
SpecIris == Init /\ [][IrisNext]_vars

\* the dispatch loop with a speak() that may raise
SpecLoop == Init /\ [][LoopNext]_vars

\* voice commands and the generator threads they start
SpecVoice == Init /\ [][VoiceNext]_vars

\* concurrent calls of on_cs2_event
SpecOrch == Init /\ [][OrchNext]_vars

\* the two consumers: they are separate objects that share no field, so each
\* is followed while the other is as constructed
ConsumersNext ==
    \/ WorkConstructed /\ LoopNext
    \/ LoopConstructed /\ WorkNext

\* the threads keep running, the speech engine finishes every utterance, the
\* clock advances and the pool ends every process_event
ConsumersFair ==
    /\ WF_vars(WorkConstructed /\ LoopThread)
    /\ WF_vars(WorkConstructed /\ LoopUtteranceEnds)
    /\ WF_vars(WorkConstructed /\ LoopTick)
    /\ WF_vars(LoopConstructed /\ WorkerTake)
    /\ \A i \in WorkIds : WF_vars(LoopConstructed /\ \E how \in Outcomes : PoolDone(i, how))

\* both consumers under these conditions
SpecConsumers == Init /\ [][ConsumersNext]_vars /\ ConsumersFair

\* the dispatch loop with a consumer thread that keeps running, a speech
\* engine that finishes every utterance and a clock that advances
SpecLoopFair ==
    /\ SpecLoop
    /\ WF_vars(LoopThread)
    /\ WF_vars(LoopUtteranceEnds)
    /\ WF_vars(LoopTick)

(***************************************************************************)
(* Claims on the diff engine (sequential requests)                         *)
(***************************************************************************)

\* the kill-class type named by the claim's table for round-kill counts 1..5
KillTypeTable ==
    [r \in 1..5 |-> CASE r = 1 -> "kill" [] r = 2 -> "double_kill" [] r = 3 -> "triple_kill"
                      [] r = 4 -> "quadra_kill" [] r = 5 -> "ace"]

\* C1: every snapshot that raises the stored match-kill counter emits exactly one
\* kill-class event, whatever the size of the increase; round-kills going from 0
\* to 5 in one snapshot emits exactly one ace and no kill event.
C1_OneKillEventPerIncrease ==
    [][player'.kills > player.kills =>
         /\ Len(KillClassEvents(events_history')) = 1
         /\ (player.round_kills = 0 /\ player'.round_kills = 5
               => KillClassEvents(events_history') = <<"ace">>)]_vars

\* a snapshot raised the kill counter by three at once with five round-kills
C1_Witness ==
    /\ player.kills = 3 /\ kill_streak = 3 /\ scn = 0
    /\ player.round_kills = 5
    /\ KillClassEvents(events_history) = <<"ace">>

\* C2: the subtype of the kill-class event is given by the round-kill counter of
\* the same snapshot alone (1 kill, 2 double_kill, 3 triple_kill, 4 quadra_kill,
\* 5 ace); three snapshots raising match kills by one each with round-kills
\* 1, 2, 3 emit kill, double_kill, triple_kill in that order.
C2_SubtypeByRoundKills ==
    [][/\ (player'.kills > player.kills /\ player'.round_kills \in 1..5
            => KillClassEvents(events_history') = <<KillTypeTable[player'.round_kills]>>)
       /\ (scn' = scn + 1
            => KillClassEvents(events_history') = <<KillTypeTable[scn']>>)]_vars

\* the third snapshot of the scenario has been processed
C2_Witness ==
    /\ scn = 3 /\ player.kills = 3 /\ player.round_kills = 3
    /\ KillClassEvents(events_history) = <<"triple_kill">>

(***************************************************************************)
(* Claims on the dispatch queue and the speech resource                    *)
(***************************************************************************)

C5_HighestPriorityFirst ==
    [][Len(queue') < Len(queue) =>
         /\ thr'.qm.pc = "inc"
         /\ \A i \in 1..Len(queue') : queue'[i].priority <= thr'.qm.priority]_vars

\* a CRITICAL item was selected ahead of an item enqueued before it
C5_Witness ==
    /\ thr.qm.pc = "inc" /\ thr.qm.priority = PRIORITY_CRITICAL
    /\ Len(queue) = 1
    /\ queue[1].id < thr.qm.id /\ queue[1].priority < PRIORITY_CRITICAL

\* C6: the tie-break sequence numbers of the messages handed to speak() are
\* distinct, also when speak() is called from different threads.
C6_DistinctSequenceNumbers ==
    \A e, f \in message_queue : e # f => e[2] # f[2]

\* an add() call has just been made on a full queue holding an item of at most
\* the incoming priority
AddOnFullNotLowest ==
    /\ last_add'.id # last_add.id
    /\ Len(queue) >= MaxQueueSize
    /\ \E i \in 1..Len(queue) : queue[i].priority <= last_add'.priority

C8_FullQueueDropsLower ==
    [][/\ (/\ last_add'.id # last_add.id
            /\ Len(queue) >= MaxQueueSize
            /\ \A i \in 1..Len(queue) : queue[i].priority > last_add'.priority)
           => (~last_add'.ret /\ queue' = queue)
       /\ Len(queue') <= MaxQueueSize
       /\ Cardinality(message_queue') <= TtsMaxQueueSize]_vars

\* a COMMENT item has just been refused by a full queue of higher-priority items
C8_Witness ==
    /\ last_add.full /\ ~last_add.ret /\ last_add.priority = PRIORITY_COMMENT
    /\ Len(queue) = MaxQueueSize
    /\ \A i \in 1..Len(queue) : queue[i].priority > PRIORITY_COMMENT

(***************************************************************************)
(* Claims on the cooldowns                                                 *)
(***************************************************************************)

\* calls i and j are for the same event type, j arrived less than one cooldown
\* window after i and carried no force flag
WithinWindow(i, j) ==
    /\ calls[i].type = calls[j].type
    /\ ~calls[j].force
    /\ calls[j].t >= calls[i].t
    /\ calls[j].t - calls[i].t < Cooldown(calls[i].type)

\* call j arrived when call i had returned
ArrivedAfter(i, j) == calls[j].seen >= i

\* C9 as stated: of two events of one type that arrive less than the cooldown
\* window apart, the first being let through, the second is rejected by the
\* cooldown check, so that exactly one response is produced and enqueued.
C9_SecondRejected ==
    \A i, j \in 1..Len(calls) :
        (ArrivedAfter(i, j) /\ WithinWindow(i, j)
         /\ ~calls[i].force /\ calls[i].result # "rejected")
            => (calls[j].result = "rejected" /\ calls[i].result = "text")

\* C9 amended: when an event of type T has produced a non-empty response, every
\* event of type T without force flag that is handled after that response was
\* recorded and arrives less than the cooldown window after the first event is
\* rejected by the cooldown check: exactly one response is produced and enqueued.
C9_SecondRejectedAfterResponse ==
    \A i, j \in 1..Len(calls) :
        (ArrivedAfter(i, j) /\ WithinWindow(i, j) /\ calls[i].result = "text")
            => calls[j].result = "rejected"

\* a kill event was answered and a second kill event two seconds later was rejected
C9_Witness ==
    /\ Len(calls) >= 2
    /\ calls[1] = [type |-> "kill", t |-> StartTime, force |-> FALSE, seen |-> 0,
                   result |-> "text"]
    /\ calls[2] = [type |-> "kill", t |-> StartTime + 2, force |-> FALSE, seen |-> 1,
                   result |-> "rejected"]

\* C10: of two threads that handle an event of the same type within one
\* cooldown window, at most one passes the check and enqueues an utterance.
C10_AtMostOnePasses ==
    \A i, j \in 1..Len(calls) :
        (i < j /\ WithinWindow(i, j) /\ ~calls[i].force)
            => ~(calls[i].result = "text" /\ calls[j].result = "text")

(***************************************************************************)
(* Claims on the webhook with request bodies of any shape                  *)
(***************************************************************************)

\* the step handles one POST
IsPost == \E req \in Requests : Post(req)

\* the events of the given type in a sequence of event records
OfType(evs, t) == SelectSeq(evs, LAMBDA e : e.type = t)

\* C11: when processing a request fails (the response is the error response),
\* no event is emitted and the stored state is what it was before the request.
C11_FailureLeavesStateUntouched ==
    [][(gs_resp' = ErrorResponse /\ IsPost) => (gs' = gs /\ gs_events' = <<>>)]_vars

\* C12: every POST is answered with {"status":"ok"} and HTTP 200.
C12_AlwaysOk == gs_resp = OkResponse

\* a field the request does not carry has its stored value after the request,
\* and a request without both ammunition keys emits no low_ammo_warning
KeepsAbsent(req) ==
    /\ req.team = NoField => gs'.team = gs.team
    /\ req.health = Absent => gs'.health = gs.health
    /\ req.kills = Absent => gs'.kills = gs.kills
    /\ req.ammo_clip = Absent => gs'.ammo_in_magazine = gs.ammo_in_magazine
    /\ req.ammo_clip_reserve = Absent => gs'.ammo_in_reserve = gs.ammo_in_reserve
    /\ req.phase = NoField => gs'.phase = gs.phase
    /\ req.win_team = NoField => gs'.win_team = gs.win_team
    /\ (req.ammo_clip = Absent /\ req.ammo_clip_reserve = Absent)
           => Len(OfType(gs_events', "low_ammo_warning")) = 0

\* C13: a field absent from a snapshot keeps its stored value, and an active
\* weapon entry without ammo_clip and ammo_clip_reserve changes no ammunition
\* field and emits no low_ammo_warning.
C13_AbsentFieldsKeepValue ==
    [][\A req \in Requests : KeepsAbsent(req) \/ ~Post(req)]_vars

\* C14: low_health is emitted exactly once per crossing of the threshold: a
\* request that takes the health from above 25 to 1..25 emits one low_health,
\* and a request that changes a health already at or below 25 emits none.
C14_LowHealthOncePerCrossing ==
    [][(gs'.health # gs.health /\ gs.health # Malformed /\ gs'.health # Malformed) =>
          IF gs.health > 25 /\ gs'.health <= 25 /\ gs'.health > 0
          THEN Len(OfType(gs_events', "low_health")) = 1
          ELSE Len(OfType(gs_events', "low_health")) = 0]_vars

\* C15: the stored health, when it is a number, lies in 0..100.
C15_HealthInRange == gs.health # Malformed => gs.health \in 0..100

\* C20: a request that changes the stored round phase to over emits exactly one
\* round_end, whose won flag is true exactly when the request's win_team names
\* a team and that team is the player's; a request that finds the phase over
\* and leaves it over emits no round_end.
C20_RoundEndOncePerRound ==
    [][LET ends == OfType(gs_events', "round_end") IN
       IF gs'.phase = "over" /\ gs.phase # "over"
       THEN /\ Len(ends) = 1
            /\ \A req \in Requests :
                 (req.win_team # NoField /\ Post(req)) =>
                     ends[1].won = (req.win_team # "" /\ req.win_team = gs'.team)
       ELSE (gs'.phase = "over" /\ gs.phase = "over") =>
                 (Len(ends) = 0 \/ ~IsPost)]_vars

\* the scenario: the phase became over with win_team CT, the player is CT, and
\* the request emitted one round_end with won = true
C20_Witness ==
    /\ gs.phase = "over" /\ gs.win_team = "CT" /\ gs.team = "CT"
    /\ gs_events = <<[type |-> "round_end", win_team |-> "CT", player_team |-> "CT",
                     won |-> TRUE]>>

(***************************************************************************)
(* Claims on preemption                                                    *)
(***************************************************************************)

\* C16: a reaction interrupts the comment in progress only if the priority of
\* its event exceeds the priority of the active comment's event by at least
\* the margin of 50 points.
C16_InterruptOnlyAboveMargin ==
    last_react.interrupted =>
        ShouldInterrupt(GetPriority(last_react.active), GetPriority(last_react.event))

(***************************************************************************)
(* Claims on abort                                                         *)
(***************************************************************************)

\* C17: interrupt() called while no utterance is in progress (none was started,
\* or the active one has completed or was aborted) changes nothing in the
\* engine and the queue manager and leaves the interrupt flag cleared.
C17_AbortIdempotent ==
    [][(thr.api.pc = "idle" /\ ~currently_speaking /\ last_interrupt' # last_interrupt) =>
          /\ UNCHANGED <<queue, last_speak_time, last_add, message_queue, msg_counter,
                         currently_speaking, interrupt_flag, mixer, overlap, tts,
                         now, next_id>>
          /\ thr'.qm = thr.qm
          /\ thr'.api.pc \in {"idle", "drain"}
          /\ interrupt_flag' = FALSE]_vars

\* interrupt() was called again after a call that aborted an utterance, found
\* nothing in progress and returned
C17_Witness ==
    /\ last_interrupt = "noop_after_abort"
    /\ thr.api.pc = "idle"
    /\ ~currently_speaking
    /\ ~interrupt_flag

(***************************************************************************)
(* Claims on the prompt cache                                              *)
(***************************************************************************)

\* the two events differ at most in their timestamp
SamePayload(e1, e2) ==
    /\ e1.type = e2.type
    /\ e1.round_kills = e2.round_kills
    /\ e1.ammo_magazine = e2.ammo_magazine

\* C18: a response the server returned is stored under the key of the prompt;
\* a lookup of a key that is in the cache is a hit that returns the stored
\* response and leaves the cache as it is; and every event that differs from
\* the handled one only in its timestamp has the same key.
C18_CacheRoundTrip ==
    [][(proc_last' # proc_last \/ prompt_cache' # prompt_cache) =>
          LET c == proc_last'
              key == CacheKey(Prompt(c.event))
          IN Prompt(c.event).template # "none" =>
               /\ (c.posts = 1 /\ c.returned # "None") =>
                      (key \in DOMAIN prompt_cache' /\ prompt_cache'[key] = c.returned)
               /\ (iris_up /\ key \in DOMAIN prompt_cache) =>
                      /\ c.hit
                      /\ c.returned = prompt_cache[key]
                      /\ prompt_cache' = prompt_cache
               /\ \A e \in ProcEvents :
                      SamePayload(e, c.event) => CacheKey(Prompt(e)) = key]_vars

\* a kill event with timestamp 2 was answered from the cache with the text
\* stored under the key of its prompt
C18_Witness ==
    /\ proc_last.hit
    /\ proc_last.event.type = "kill"
    /\ proc_last.event.timestamp = 2
    /\ proc_last.returned = "text_b"
    /\ prompt_cache[CacheKey(Prompt(proc_last.event))] = "text_b"

\* C19: an event whose key was in the cache when it was processed gets the
\* cached text and no request goes to the server, whether the server is
\* reachable or not.
C19_HitBypassesCollaborator ==
    proc_last.cached_before =>
        /\ proc_last.hit
        /\ proc_last.returned # "None"
        /\ proc_last.health_checks = 0
        /\ proc_last.posts = 0

(***************************************************************************)
(* Claims on start() and stop()                                            *)
(***************************************************************************)

\* the loops of object o that are inside an iteration or about to begin one
Consumers(o) ==
    {i \in ThreadIds : \/ loop_pc[o][i] \in {"body", "get", "synth", "play"}
                       \/ loop_pc[o][i] = "while" /\ is_running[o]}

\* C21: after any sequence of start() and stop() calls, stop() followed by
\* start() while the old loop has not yet exited included, at most one consumer
\* loop of an object is running.
C21_AtMostOneConsumer == \A o \in Runners : Cardinality(Consumers(o)) <= 1

(***************************************************************************)
(* Claims on the classification                                            *)
(***************************************************************************)

\* C22: low_health is classified CRITICAL when the health of the event is at
\* most 1 and HIGH for every larger health.
C22_LowHealthTierByHealth ==
    (classified.event_type = "low_health" /\ classified.given
        /\ classified.current_health # Absent)
    => classified.priority = (IF classified.current_health <= 1 THEN CRITICAL ELSE HIGH)

C24_SameSnapshotsSameEvents == run_a.events = run_b.events

(***************************************************************************)
(* Claims on interrupt() and the waiting messages                          *)
(***************************************************************************)

\* C25: interrupt() ends only the utterance being played: while an interrupt()
\* that is not part of flush() is under way, the consumer discards no message
\* it has taken from the TTS queue.
C25_InterruptKeepsWaitingMessages ==
    [][~(/\ tts.pc = "check"
         /\ interrupt_flag
         /\ ~thr.api.flush
         /\ tts'.pc = "get"
         /\ tts'.cur = NoMsg)]_vars

\* C26: the manager's loop takes an item out of the dispatch queue only in a
\* state where the speech resource is free (nothing being spoken, nothing
\* waiting in the TTS queue), whatever other callers of speak() do meanwhile.
C26_RemovesOnlyWhenFree ==
    [][(thr.qm.pc = "select" /\ thr'.qm.pc = "inc" /\ Len(queue') < Len(queue))
          => ~IsBusy]_vars

(***************************************************************************)
(* Claims on the round, the bomb and the map (every step of SpecMatch is   *)
(* one request)                                                            *)
(***************************************************************************)

\* C27: a snapshot whose round number is lower than the stored one starts a
\* new match: the kill streak is reset before the snapshot is diffed, so
\* after a request that lowers the round number and reports no new kill the
\* kill streak is 0, and the request emits no event for the reset.
C27_LowerRoundResetsCounters ==
    [][(ms'.round < ms.round /\ ms'.kills <= ms.kills) => ms'.kill_streak = 0]_vars

\* C28: a bomb event is emitted exactly when the stored bomb phase changes to
\* planted, defused or exploded from a different value; a request that repeats
\* the stored bomb phase or carries no bomb field emits no bomb event.
C28_BombEventsOnRisingEdge ==
    [][\A b \in {"planted", "defused", "exploded"} :
          Len(OfType(ms_events', "bomb_" \o b)) =
              (IF ms'.bomb = b /\ ms.bomb # b THEN 1 ELSE 0)]_vars

\* in a live round the request handled last reported a kill and the planted
\* bomb: one bomb_planted after the kill
C28_Witness ==
    /\ ms.bomb = "planted"
    /\ ms.phase = "live"
    /\ ms_events = <<[type |-> "kill"], [type |-> "bomb_planted"]>>

\* C29: one match_end is emitted by the request that changes the map phase to
\* gameover from a different phase, and none by later requests while the map
\* phase is still gameover.
C29_MatchEndOnTransition ==
    [][Len(OfType(ms_events', "match_end")) =
          (IF ms'.map_phase = "gameover" /\ ms.map_phase # "gameover" THEN 1 ELSE 0)]_vars

(***************************************************************************)
(* Claims on the damage events                                             *)
(***************************************************************************)

\* C30: a request that lowers the health to a value above 0 emits one damage
\* event, and one low_health event in addition when the new health is at most
\* 30; a request that does not lower the health, or lowers it to 0, emits no
\* damage and no low_health event.
C30_DamageAndLowHealth ==
    [][(gs.health # Malformed /\ gs'.health # Malformed) =>
          LET damage == Len(OfType(gs_events', "damage"))
              low == Len(OfType(gs_events', "low_health"))
          IN IF gs'.health < gs.health /\ gs'.health > 0
             THEN damage = 1 /\ low = (IF gs'.health <= 30 THEN 1 ELSE 0)
             ELSE (damage = 0 /\ low = 0) \/ ~IsPost]_vars

(***************************************************************************)
(* Claims on deaths and round starts                                       *)
(***************************************************************************)

\* C31: a snapshot that raises the stored death counter emits exactly one death
\* event and leaves the kill streak at 0, also when the same snapshot raises
\* the kill counter.
C31_DeathResetsStreak ==
    [][player'.deaths > player.deaths =>
         /\ Len(SelectSeq(events_history', LAMBDA e : e = "death")) = 1
         /\ kill_streak' = 0]_vars

\* one snapshot raised the kill counter by two and the death counter by one
C31_Witness ==
    /\ player.deaths = 1 /\ player.kills = 2 /\ player.round_kills = 2
    /\ events_history = <<"double_kill", "death">>
    /\ kill_streak = 0

\* C32: the request that changes the stored round phase to freezetime emits
\* exactly one round_start and leaves the kill streak at 0 and the round-kill
\* baseline at the stored match kills; a request that finds the phase
\* freezetime, or does not make it freezetime, emits no round_start.
C32_RoundStartOnFreezetime ==
    [][IF ms'.phase = "freezetime" /\ ms.phase # "freezetime"
       THEN /\ Len(OfType(ms_events', "round_start")) = 1
            /\ ms'.kill_streak = 0
            /\ ms'.round_start_kills = ms'.kills
       ELSE Len(OfType(ms_events', "round_start")) = 0]_vars

\* the request handled last reported a kill and the freezetime of a new round
C32_Witness ==
    /\ ms.phase = "freezetime"
    /\ ms_events = <<[type |-> "kill"], [type |-> "round_start"]>>
    /\ ms.kills = 1 /\ ms.round_start_kills = 1 /\ ms.kill_streak = 0

(***************************************************************************)
(* Claims on the cooldowns of IrisBrain                                    *)
(***************************************************************************)

\* the event type of a reaction
OwnType(reaction) ==
    CASE reaction = "plant" -> "bomb_planted"
      [] reaction = "defuse" -> "bomb_defused"
      [] reaction = "explode" -> "bomb_exploded"
      [] OTHER -> reaction

\* C33: cooldowns are independent per event type: a reaction records its time
\* under its own event type only, so a low_health reaction leaves the entry of
\* death alone and the bomb_planted and bomb_defused reactions use entries of
\* their own.
C33_CooldownPerEventType ==
    [][\A t \in IrisTypes :
          iris_last_response_times'[t] # iris_last_response_times[t]
              => t = OwnType(iris_react'.reaction)]_vars

(***************************************************************************)
(* Claims on the consumers when a call fails                               *)
(***************************************************************************)

\* the consumer thread leaves line 123 with an exception
SpeakRaised == loop_at.pc = "speak" /\ loop_at' # loop_at /\ ~loop_last'.ok

\* an item of higher priority than item i waits in the queue with it
HigherWaits(i) ==
    \E k, m \in 1..Len(loop_queue) :
        loop_queue[k].id = i /\ loop_queue[m].priority > loop_queue[k].priority

DispatchBegins == loop_at.pc = "speak" /\ loop_at' # loop_at

\* C35: a dispatch begins only when at least the debounce interval has
\* passed since the previous dispatch began.
C35_DebounceBetweenDispatches == [][DispatchBegins => loop_gap >= DebounceInterval]_vars

(***************************************************************************)
(* Claims on what becomes of an accepted item                              *)
(***************************************************************************)

\* an accepted item waits in the queue until the consumer thread takes it,
\* the thread hands every item it took to tts.speak(), and no item is
\* handed over twice
HandedOverOnce ==
    /\ [](\A k, m \in 1..Len(loop_queue) :
            /\ loop_spoken[loop_queue[k].id] = 0
            /\ loop_queue[k].id = loop_queue[m].id => k = m)
    /\ [](\A i \in LoopIds : loop_spoken[i] <= 1)
    /\ [][\A i \in IdsOf(loop_queue) \ IdsOf(loop_queue') :
            loop_at'.pc = "speak" /\ loop_at'.item.id = i]_vars
    /\ [][DispatchBegins => loop_spoken'[loop_at.item.id] = 1]_vars

\* C38 as stated: every item that add() accepted is handed to tts.speak()
\* exactly once, and eventually when the consumer thread keeps running and
\* the speech engine becomes free after each utterance.
C38_AcceptedItemDispatchedEventually ==
    /\ HandedOverOnce
    /\ \A i \in LoopIds : (i \in IdsOf(loop_queue)) ~> (loop_spoken[i] = 1)

\* C38, amended: every item that add() accepted is handed to tts.speak() at
\* most once and is not lost: it waits in the queue until the consumer
\* thread takes it.  With a consumer thread that keeps running and a speech
\* engine that becomes free after each utterance it is handed over
\* eventually unless items of higher priority keep overtaking it: from any
\* moment at which it waits, it is later handed over or waits behind an
\* item of higher priority.
C38_AcceptedItemDispatchedInPriorityOrder ==
    /\ HandedOverOnce
    /\ \A i \in LoopIds : (i \in IdsOf(loop_queue)) ~> (loop_spoken[i] = 1 \/ HigherWaits(i))

\* an accepted item has been handed to tts.speak() while a full queue of
\* later items waits
C38_Witness ==
    /\ loop_last.call = "speak"
    /\ loop_spoken[loop_last.id] = 1
    /\ Len(loop_queue) = MaxQueueSize
    /\ \A k \in 1..Len(loop_queue) : loop_queue[k].priority = PRIORITY_COMMENT

(***************************************************************************)
(* Claims on the voice commands                                            *)
(***************************************************************************)

\* C36: at most one AI generation runs at a time: no generate_and_speak
\* thread is started while one started earlier has not finished, whatever
\* voice commands, STOP included, come in between.
C36_OneGenerationAtATime ==
    [][(\E t \in GenIds : gen[t].pc = "none" /\ gen'[t].pc = "started") => Unfinished = {}]_vars

\* C37: the response of a generation that was in flight when a STOP command
\* was handled is never passed to tts.speak, also when another voice command
\* is accepted before that generation returns.
C37_StoppedResponseNotSpoken ==
    \A t \in GenIds : ~(gen[t].stopped /\ gen[t].said = "response")

(***************************************************************************)
(* Claims on the orchestrator                                              *)
(***************************************************************************)

\* C39: the orchestrator handles at most one game event at a time: at most
\* one call of on_cs2_event is past the busy check at any moment, and
\* self.processing is False whenever no call is in progress, also after a
\* call that raised.
C39_OneEventAtATime ==
    /\ Cardinality(PastCheck) <= 1
    /\ (\A t \in Callers : orch[t].pc = "idle") => ~processing

====
